---- MODULE Spec2Model ----
(***************************************************************************)
(* Line diff engine of the JSON diff view (computeLineDiff in              *)
(* src/features/json/JsonDiff.tsx).                                        *)
(*                                                                         *)
(* A text is a sequence of one-character strings.  A call of               *)
(* computeLineDiff is a small state machine: split and trim, build the LCS *)
(* matrix, walk it backwards one op per step, drain, reverse and project,  *)
(* return.  Spec makes one call on any two texts.  SpecSwap and SpecWs make   *)
(* two calls one after the other, the way the component re-invokes the     *)
(* function when its inputs change; the second call's inputs are the first *)
(* call's exchanged (SpecSwap) or stripped of trailing whitespace          *)
(* (SpecWs), which is what the relational properties are stated over.      *)
(* SpecConc interleaves the steps of two calls.                            *)
(*                                                                         *)
(* SpecTs is the timestamp converter (TimestampTool.tsx, timeUtils.ts):    *)
(* its input, its unit selector and the conversion effect that runs when   *)
(* either changes.  Numbers too large for the checker's integers are kept  *)
(* as sequences of decimal digits.                                         *)
(*                                                                         *)
(* SpecJson is the JSON tool (JsonTool): its input, its history of at most *)
(* 50 items and the timer of the auto-save effect.  Time passes in steps   *)
(* of one second.                                                          *)
(***************************************************************************)
EXTENDS Integers, Sequences, FiniteSets, TLC

VARIABLES call, relation, ts, js

vars == <<call, relation, ts, js>>

(***************************************************************************)
(* Bounds of the model.                                                    *)
(***************************************************************************)
MaxLines == 3
MaxWsLines == 2
MaxConcLines == 2
MaxTsDigits == 14
MaxJsonSteps == 4

(***************************************************************************)
(* Characters and texts.                                                   *)
(***************************************************************************)
LF == "\n"

\* Lines (without line feed) the inputs of Spec are made of.
LineForms == { <<>>, <<"a">>, <<"b">>, <<"a", " ">> }

\* <<key, padded>>: a line without trailing whitespace and the same line with
\* trailing whitespace appended; the inputs of SpecWs are made of these.
PaddedForms ==
    { << <<"a">>, <<"a">> >>,
      << <<"a">>, <<"a", " ">> >>,
      << <<"a">>, <<"a", "\r">> >>,
      << <<"b">>, <<"b">> >>,
      << <<"b">>, <<"b", " ", "\t">> >>,
      << <<>>, <<"\t">> >> }

RECURSIVE JoinLines(_)
JoinLines(ls) ==
    IF Len(ls) = 1 THEN ls[1]
    ELSE ls[1] \o <<LF>> \o JoinLines(Tail(ls))

LineSeqs(forms, max) == UNION { [1..k -> forms] : k \in 1..max }

Texts == { JoinLines(ls) : ls \in LineSeqs(LineForms, MaxLines) }

(***************************************************************************)
(* Arrays are sequences read with the source's zero-based indices.         *)
(***************************************************************************)
At(arr, k) == arr[k + 1]

InRange(arr, k) == k >= 0 /\ k < Len(arr)

Fill(len, v) == [k \in 1..len |-> v]

Max(a, b) == IF a >= b THEN a ELSE b

(***************************************************************************)
(* Line Normalizer: String.prototype.split('\n') and                       *)
(* line.replace(/\s+$/g, '').                                              *)
(***************************************************************************)
\* split: scans the text left to right; cur is the line being collected.
RECURSIVE SplitFrom(_, _, _, _)
SplitFrom(text, k, cur, acc) ==
    IF k > Len(text) THEN Append(acc, cur)
    ELSE IF text[k] = LF THEN SplitFrom(text, k + 1, <<>>, Append(acc, cur))
    ELSE SplitFrom(text, k + 1, Append(cur, text[k]), acc)

\* Mutant: trailing empty lines are dropped, so the empty text has no line.
RECURSIVE DropTrailingEmpty(_)
DropTrailingEmpty(lines) ==
    IF Len(lines) > 0 /\ lines[Len(lines)] = <<>>
    THEN DropTrailingEmpty(SubSeq(lines, 1, Len(lines) - 1))
    ELSE lines

SplitDropTrailing(text) == DropTrailingEmpty(SplitFrom(text, 1, <<>>, <<>>))

Split(text) == SplitFrom(text, 1, <<>>, <<>>)

\* The characters of the model that the regular expression class \s matches.
\* Mutant: only blanks and tabs count as whitespace.
IsWhitespaceBlankOnly(c) == c \in {" ", "\t"}

IsWhitespace(c) == c \in {" ", "\t", "\r", LF}

\* replace(/\s+$/g, ''): the maximal run of whitespace at the end is removed.
RECURSIVE TrimEnd(_)
TrimEnd(line) ==
    IF Len(line) > 0 /\ IsWhitespace(line[Len(line)])
    THEN TrimEnd(SubSeq(line, 1, Len(line) - 1))
    ELSE line

TrimAll(lines) == [k \in 1..Len(lines) |-> TrimEnd(lines[k])]

(***************************************************************************)
(* Similarity Matrix Builder.                                              *)
(***************************************************************************)
\* Mutant: the matrix is filled with 1 before the loops.
ZeroMatrixOfOnes(n, m) == Fill(n + 1, Fill(m + 1, 1))

ZeroMatrix(n, m) == Fill(n + 1, Fill(m + 1, 0))

Cell(dp, i, j) == dp[i + 1][j + 1]

\* Mutant: on unequal keys only the cell above is carried over.
FillCellAboveOnly(dp, oldTrimmed, newTrimmed, i, j) ==
    IF At(oldTrimmed, i - 1) = At(newTrimmed, j - 1)
    THEN [dp EXCEPT ![i + 1][j + 1] = Cell(dp, i - 1, j - 1) + 1]
    ELSE [dp EXCEPT ![i + 1][j + 1] = Cell(dp, i - 1, j)]

\* The body of the inner loop for one (i, j).
FillCell(dp, oldTrimmed, newTrimmed, i, j) ==
    IF At(oldTrimmed, i - 1) = At(newTrimmed, j - 1)
    THEN [dp EXCEPT ![i + 1][j + 1] = Cell(dp, i - 1, j - 1) + 1]
    ELSE [dp EXCEPT ![i + 1][j + 1] = Max(Cell(dp, i - 1, j), Cell(dp, i, j - 1))]

\* for i in 1..n, for j in 1..m, in that order.
RECURSIVE FillFrom(_, _, _, _, _)
FillFrom(dp, oldTrimmed, newTrimmed, i, j) ==
    IF i > Len(oldTrimmed) THEN dp
    ELSE IF j > Len(newTrimmed) THEN FillFrom(dp, oldTrimmed, newTrimmed, i + 1, 1)
    ELSE FillFrom(FillCell(dp, oldTrimmed, newTrimmed, i, j),
                  oldTrimmed, newTrimmed, i, j + 1)

BuildMatrix(oldTrimmed, newTrimmed) ==
    FillFrom(ZeroMatrix(Len(oldTrimmed), Len(newTrimmed)),
             oldTrimmed, newTrimmed, 1, 1)

(***************************************************************************)
(* Edit-Script Reconstructor: the conditions of the main loop.             *)
(***************************************************************************)
\* Mutant: || in place of && in the loop condition.
MainLoopCondEither(i, j) == i > 0 \/ j > 0

\* Mutant: the main loop stops one line early on both sides.
MainLoopCondOffByOne(i, j) == i > 1 /\ j > 1

MainLoopCond(i, j) == i > 0 /\ j > 0

KeysEqual(c) == At(c.oldTrimmed, c.i - 1) = At(c.newTrimmed, c.j - 1)

\* Mutant: the diagonal must be strictly better.
ModifyCondStrict(dp, i, j) ==
    /\ Cell(dp, i - 1, j - 1) > Cell(dp, i - 1, j)
    /\ Cell(dp, i - 1, j - 1) > Cell(dp, i, j - 1)

\* Mutant: only the first comparison is made.
ModifyCondFirstOnly(dp, i, j) == Cell(dp, i - 1, j - 1) >= Cell(dp, i - 1, j)

\* Mutant: || in place of &&.
ModifyCondEither(dp, i, j) ==
    \/ Cell(dp, i - 1, j - 1) >= Cell(dp, i - 1, j)
    \/ Cell(dp, i - 1, j - 1) >= Cell(dp, i, j - 1)

ModifyCond(dp, i, j) ==
    /\ Cell(dp, i - 1, j - 1) >= Cell(dp, i - 1, j)
    /\ Cell(dp, i - 1, j - 1) >= Cell(dp, i, j - 1)

\* Mutant: Remove only when the cell above is strictly greater.
RemoveCondStrict(dp, i, j) == Cell(dp, i - 1, j) > Cell(dp, i, j - 1)

RemoveCond(dp, i, j) == Cell(dp, i - 1, j) >= Cell(dp, i, j - 1)

\* Mutant: the Remove drain runs once more, down to i = -1.
DrainRemoveCondOffByOne(i, j) == i >= 0

DrainRemoveCond(i, j) == i > 0

\* Mutant: the Add drain runs once more, down to j = -1.
DrainAddCondOffByOne(i, j) == j >= 0

DrainAddCond(i, j) == j > 0

EqualOp(i, j) == [type |-> "equal", oldIndex |-> i - 1, newIndex |-> j - 1]
ModifyOp(i, j) == [type |-> "modify", oldIndex |-> i - 1, newIndex |-> j - 1]
\* Mutant: Remove carries the loop counter itself, not the index before it.
RemoveOpNoShift(i) == [type |-> "remove", oldIndex |-> i]

RemoveOp(i) == [type |-> "remove", oldIndex |-> i - 1]
\* Mutant: Add carries the loop counter itself, not the index before it.
AddOpNoShift(j) == [type |-> "add", newIndex |-> j]

AddOp(j) == [type |-> "add", newIndex |-> j - 1]

\* Every matrix cell the main loop may read at (i, j) exists.
ReadsInRange(dp, i, j) ==
    /\ InRange(dp, i) /\ InRange(dp, i - 1)
    /\ InRange(dp[i + 1], j) /\ InRange(dp[i + 1], j - 1)
    /\ InRange(dp[i], j) /\ InRange(dp[i], j - 1)

\* Mutant: the ops are left in the order they were pushed.
ReverseOmitted(s) == s

Reverse(s) == [k \in 1..Len(s) |-> s[Len(s) + 1 - k]]

(***************************************************************************)
(* Status Projector.                                                       *)
(***************************************************************************)
LineStatus == {"unchanged", "added", "removed", "modified"}

\* Mutant: the old side of a Modify is marked removed.
ApplyOldModifyAsRemoved(statuses, op) ==
    IF op.type = "equal" THEN [statuses EXCEPT ![op.oldIndex + 1] = "unchanged"]
    ELSE IF op.type = "remove" THEN [statuses EXCEPT ![op.oldIndex + 1] = "removed"]
    ELSE IF op.type = "modify" THEN [statuses EXCEPT ![op.oldIndex + 1] = "removed"]
    ELSE statuses

\* The old-side assignment of one op.
ApplyOld(statuses, op) ==
    IF op.type = "equal" THEN [statuses EXCEPT ![op.oldIndex + 1] = "unchanged"]
    ELSE IF op.type = "remove" THEN [statuses EXCEPT ![op.oldIndex + 1] = "removed"]
    ELSE IF op.type = "modify" THEN [statuses EXCEPT ![op.oldIndex + 1] = "modified"]
    ELSE statuses

\* Mutant: the new side of a Modify is marked added.
ApplyNewModifyAsAdded(statuses, op) ==
    IF op.type = "equal" THEN [statuses EXCEPT ![op.newIndex + 1] = "unchanged"]
    ELSE IF op.type = "add" THEN [statuses EXCEPT ![op.newIndex + 1] = "added"]
    ELSE IF op.type = "modify" THEN [statuses EXCEPT ![op.newIndex + 1] = "added"]
    ELSE statuses

\* The new-side assignment of one op.
ApplyNew(statuses, op) ==
    IF op.type = "equal" THEN [statuses EXCEPT ![op.newIndex + 1] = "unchanged"]
    ELSE IF op.type = "add" THEN [statuses EXCEPT ![op.newIndex + 1] = "added"]
    ELSE IF op.type = "modify" THEN [statuses EXCEPT ![op.newIndex + 1] = "modified"]
    ELSE statuses

RECURSIVE ProjectOld(_, _)
ProjectOld(statuses, ops) ==
    IF ops = <<>> THEN statuses
    ELSE ProjectOld(ApplyOld(statuses, Head(ops)), Tail(ops))

RECURSIVE ProjectNew(_, _)
ProjectNew(statuses, ops) ==
    IF ops = <<>> THEN statuses
    ELSE ProjectNew(ApplyNew(statuses, Head(ops)), Tail(ops))

(***************************************************************************)
(* The timestamp converter before any input: useState defaults.            *)
(***************************************************************************)
Null == "null"

\* tsResult null: no digits to show.
NoResult == [seconds |-> <<>>, milliseconds |-> <<>>]

TsIdle == [timestampInput |-> <<>>, unit |-> "auto", tsResult |-> NoResult,
           error |-> Null, tz |-> 0]

(***************************************************************************)
(* The JSON tool before any input: empty input and history, no timer set.  *)
(***************************************************************************)
JsIdle == [input |-> <<>>, history |-> <<>>, timers |-> {}, sinceChange |-> 0,
           indentation |-> 2, viewMode |-> "code", nextId |-> 1, steps |-> 0]

(***************************************************************************)
(* The state of one call.                                                  *)
(***************************************************************************)
NewCall(oldText, newText) ==
    [ pc |-> "split",
      oldText |-> oldText, newText |-> newText,
      oldTrimmed |-> <<>>, newTrimmed |-> <<>>,
      n |-> 0, m |-> 0,
      dp |-> <<>>,
      ops |-> <<>>, i |-> 0, j |-> 0,
      oldStatuses |-> <<>>, newStatuses |-> <<>>,
      result |-> <<>> ]

\* The calls are made one after the other: a call starts when the one before
\* it has returned.  Under the relation "concurrent" calls 1 and 2 are both
\* started at once and their steps interleave; calls 3 and 4 then run alone.
Runnable(c) ==
    IF c = 1 THEN TRUE
    ELSE IF relation = "concurrent" /\ c = 2 THEN TRUE
    ELSE IF relation = "concurrent" /\ c = 3
         THEN call[1].pc = "done" /\ call[2].pc = "done"
    ELSE call[c - 1].pc = "done"

\* Pairs of texts over other letters, <<old, new>>: lines that share nothing.
DisjointPairs ==
    { << <<"x">>, <<"p", LF, "q">> >>,
      << <<"p", LF, "q">>, <<"x">> >>,
      << <<"x", LF, "y">>, <<"p", LF, "q">> >> }

\* One call, on any two texts.
Init ==
    /\ relation = "single"
    /\ ts = TsIdle
    /\ js = JsIdle
    /\ \/ \E A \in Texts, B \in Texts : call = <<NewCall(A, B)>>
       \/ \E pair \in DisjointPairs : call = <<NewCall(pair[1], pair[2])>>

\* diff(A, B), then diff(B, A).
InitSwap ==
    /\ relation = "swap"
    /\ ts = TsIdle
    /\ js = JsIdle
    /\ \E A \in Texts, B \in Texts : call = <<NewCall(A, B), NewCall(B, A)>>

\* The lines of a text chosen as <<key, padded>> pairs: the padded lines and
\* the keys, each joined by line feeds.
PaddedText(ps) == JoinLines([k \in 1..Len(ps) |-> ps[k][2]])
KeyText(ps) == JoinLines([k \in 1..Len(ps) |-> ps[k][1]])

\* diff of two texts with trailing whitespace, then diff of the same texts
\* without it.
InitWs ==
    /\ relation = "strip"
    /\ ts = TsIdle
    /\ js = JsIdle
    /\ \E P \in LineSeqs(PaddedForms, MaxWsLines), Q \in LineSeqs(PaddedForms, MaxWsLines) :
           call = <<NewCall(PaddedText(P), PaddedText(Q)),
                    NewCall(KeyText(P), KeyText(Q))>>

ConcTexts == { JoinLines(ls) : ls \in LineSeqs(LineForms, MaxConcLines) }

\* diff(A, B) and diff(B, A) with their steps interleaved, then each of the
\* two once more, alone.
InitConc ==
    /\ relation = "concurrent"
    /\ ts = TsIdle
    /\ js = JsIdle
    /\ \E A \in ConcTexts, B \in ConcTexts :
           call = <<NewCall(A, B), NewCall(B, A), NewCall(A, B), NewCall(B, A)>>

(***************************************************************************)
(* Actions: one per step of computeLineDiff.                               *)
(***************************************************************************)
SplitAndTrim(c) ==
    /\ Runnable(c) /\ call[c].pc = "split"
    /\ LET oldTrimmed == TrimAll(Split(call[c].oldText))
           newTrimmed == TrimAll(Split(call[c].newText))
       IN call' = [call EXCEPT ![c].pc = "build",
                               ![c].oldTrimmed = oldTrimmed,
                               ![c].newTrimmed = newTrimmed,
                               ![c].n = Len(oldTrimmed),
                               ![c].m = Len(newTrimmed)]
    /\ UNCHANGED <<relation, ts, js>>

\* Mutant: the matrix lives in one place that every call uses.
BuildShared(c) ==
    /\ Runnable(c) /\ call[c].pc = "build"
    /\ LET dp == BuildMatrix(call[c].oldTrimmed, call[c].newTrimmed)
       IN call' = [d \in DOMAIN call |->
                      IF d = c
                      THEN [call[c] EXCEPT !.pc = "walk", !.dp = dp, !.ops = <<>>,
                                           !.i = call[c].n, !.j = call[c].m]
                      ELSE [call[d] EXCEPT !.dp = dp]]
    /\ UNCHANGED <<relation, ts, js>>

Build(c) ==
    /\ Runnable(c) /\ call[c].pc = "build"
    /\ call' = [call EXCEPT ![c].pc = "walk",
                            ![c].dp = BuildMatrix(call[c].oldTrimmed, call[c].newTrimmed),
                            ![c].ops = <<>>,
                            ![c].i = call[c].n,
                            ![c].j = call[c].m]
    /\ UNCHANGED <<relation, ts, js>>

\* A read of a matrix row that does not exist throws, and the call never
\* returns: no step is enabled there.
WalkEqual(c) ==
    /\ Runnable(c) /\ call[c].pc = "walk"
    /\ MainLoopCond(call[c].i, call[c].j)
    /\ ReadsInRange(call[c].dp, call[c].i, call[c].j)
    /\ KeysEqual(call[c])
    /\ call' = [call EXCEPT ![c].ops = Append(@, EqualOp(call[c].i, call[c].j)),
                            ![c].i = @ - 1,
                            ![c].j = @ - 1]
    /\ UNCHANGED <<relation, ts, js>>

WalkModify(c) ==
    /\ Runnable(c) /\ call[c].pc = "walk"
    /\ MainLoopCond(call[c].i, call[c].j)
    /\ ReadsInRange(call[c].dp, call[c].i, call[c].j)
    /\ ~KeysEqual(call[c])
    /\ ModifyCond(call[c].dp, call[c].i, call[c].j)
    /\ call' = [call EXCEPT ![c].ops = Append(@, ModifyOp(call[c].i, call[c].j)),
                            ![c].i = @ - 1,
                            ![c].j = @ - 1]
    /\ UNCHANGED <<relation, ts, js>>

WalkRemove(c) ==
    /\ Runnable(c) /\ call[c].pc = "walk"
    /\ MainLoopCond(call[c].i, call[c].j)
    /\ ReadsInRange(call[c].dp, call[c].i, call[c].j)
    /\ ~KeysEqual(call[c])
    /\ ~ModifyCond(call[c].dp, call[c].i, call[c].j)
    /\ RemoveCond(call[c].dp, call[c].i, call[c].j)
    /\ call' = [call EXCEPT ![c].ops = Append(@, RemoveOp(call[c].i)),
                            ![c].i = @ - 1]
    /\ UNCHANGED <<relation, ts, js>>

WalkAdd(c) ==
    /\ Runnable(c) /\ call[c].pc = "walk"
    /\ MainLoopCond(call[c].i, call[c].j)
    /\ ReadsInRange(call[c].dp, call[c].i, call[c].j)
    /\ ~KeysEqual(call[c])
    /\ ~ModifyCond(call[c].dp, call[c].i, call[c].j)
    /\ ~RemoveCond(call[c].dp, call[c].i, call[c].j)
    /\ call' = [call EXCEPT ![c].ops = Append(@, AddOp(call[c].j)),
                            ![c].j = @ - 1]
    /\ UNCHANGED <<relation, ts, js>>

WalkExit(c) ==
    /\ Runnable(c) /\ call[c].pc = "walk"
    /\ ~MainLoopCond(call[c].i, call[c].j)
    /\ call' = [call EXCEPT ![c].pc = "drainRemove"]
    /\ UNCHANGED <<relation, ts, js>>

DrainRemove(c) ==
    /\ Runnable(c) /\ call[c].pc = "drainRemove"
    /\ DrainRemoveCond(call[c].i, call[c].j)
    /\ call' = [call EXCEPT ![c].ops = Append(@, RemoveOp(call[c].i)),
                            ![c].i = @ - 1]
    /\ UNCHANGED <<relation, ts, js>>

DrainRemoveExit(c) ==
    /\ Runnable(c) /\ call[c].pc = "drainRemove"
    /\ ~DrainRemoveCond(call[c].i, call[c].j)
    /\ call' = [call EXCEPT ![c].pc = "drainAdd"]
    /\ UNCHANGED <<relation, ts, js>>

DrainAdd(c) ==
    /\ Runnable(c) /\ call[c].pc = "drainAdd"
    /\ DrainAddCond(call[c].i, call[c].j)
    /\ call' = [call EXCEPT ![c].ops = Append(@, AddOp(call[c].j)),
                            ![c].j = @ - 1]
    /\ UNCHANGED <<relation, ts, js>>

\* ops.reverse(), the two status arrays, the loop over the ops.
Project(c) ==
    /\ Runnable(c) /\ call[c].pc = "drainAdd"
    /\ ~DrainAddCond(call[c].i, call[c].j)
    /\ LET ops == Reverse(call[c].ops)
       IN call' = [call EXCEPT ![c].pc = "return",
                               ![c].ops = ops,
                               ![c].oldStatuses =
                                   ProjectOld(Fill(call[c].n, "unchanged"), ops),
                               ![c].newStatuses =
                                   ProjectNew(Fill(call[c].m, "unchanged"), ops)]
    /\ UNCHANGED <<relation, ts, js>>

Return(c) ==
    /\ Runnable(c) /\ call[c].pc = "return"
    /\ call' = [call EXCEPT ![c].pc = "done",
                            ![c].result = [oldStatuses |-> call[c].oldStatuses,
                                           newStatuses |-> call[c].newStatuses]]
    /\ UNCHANGED <<relation, ts, js>>

Next ==
    \E c \in DOMAIN call :
        \/ SplitAndTrim(c)
        \/ Build(c)
        \/ WalkEqual(c)
        \/ WalkModify(c)
        \/ WalkRemove(c)
        \/ WalkAdd(c)
        \/ WalkExit(c)
        \/ DrainRemove(c)
        \/ DrainRemoveExit(c)
        \/ DrainAdd(c)
        \/ Project(c)
        \/ Return(c)

Spec == Init /\ [][Next]_vars

SpecSwap == InitSwap /\ [][Next]_vars

SpecWs == InitWs /\ [][Next]_vars

SpecConc == InitConc /\ [][Next]_vars

(***************************************************************************)
(* Timestamp converter: numbers as decimal digit sequences.                *)
(***************************************************************************)
DigitChars == <<"0", "1", "2", "3", "4", "5", "6", "7", "8", "9">>

IsDigit(ch) == \E k \in 1..10 : DigitChars[k] = ch

DigitVal(ch) == (CHOOSE k \in 1..10 : DigitChars[k] = ch) - 1

\* replace(/\D/g, ''): the digit characters, in order.
RECURSIVE StripNonDigits(_)
StripNonDigits(str) ==
    IF str = <<>> THEN <<>>
    ELSE IF IsDigit(Head(str)) THEN <<Head(str)>> \o StripNonDigits(Tail(str))
    ELSE StripNonDigits(Tail(str))

\* String.prototype.trim() leaves nothing.
RECURSIVE IsBlank(_)
IsBlank(str) ==
    IF str = <<>> THEN TRUE
    ELSE IsWhitespace(Head(str)) /\ IsBlank(Tail(str))

\* parseInt(digits, 10) of a non-empty digit string: leading zeros dropped.
RECURSIVE DropLeadingZeros(_)
DropLeadingZeros(ds) ==
    IF Len(ds) > 1 /\ Head(ds) = 0 THEN DropLeadingZeros(Tail(ds)) ELSE ds

ParseInt(digits) == DropLeadingZeros([k \in 1..Len(digits) |-> DigitVal(digits[k])])

\* num * 1000 and Math.floor(num / 1000).
Times1000(num) == IF num = <<0>> THEN <<0>> ELSE num \o <<0, 0, 0>>

FloorDiv1000(num) == IF Len(num) <= 3 THEN <<0>> ELSE SubSeq(num, 1, Len(num) - 3)

\* Quotient and remainder of a digit sequence by a small divisor.
RECURSIVE DivModFrom(_, _, _, _)
DivModFrom(num, d, q, r) ==
    IF num = <<>> THEN [q |-> q, r |-> r]
    ELSE LET cur == r * 10 + Head(num)
         IN DivModFrom(Tail(num), d, q * 10 + (cur \div d), cur % d)

DivMod(num, d) == DivModFrom(num, d, 0, 0)

\* The year of the proleptic Gregorian calendar that holds a day, counted
\* from 1970-01-01 (what Date does with its time value).
YearOfDay(day) ==
    LET z == day + 719468
        era == z \div 146097
        doe == z - era * 146097
        yoe == (doe - (doe \div 1460) + (doe \div 36524) - (doe \div 146096)) \div 365
        doy == doe - (365 * yoe + (yoe \div 4) - (yoe \div 100))
        mp == (5 * doy + 2) \div 153
        month == IF mp < 10 THEN mp + 3 ELSE mp - 9
    IN yoe + era * 400 + (IF month <= 2 THEN 1 ELSE 0)

\* new Date(ms).getFullYear() in a time zone tz hours east of UTC.
FullYear(ms, tz) ==
    LET dm == DivMod(ms, 86400000)
        local == dm.r + tz * 3600000
        day == IF local < 0 THEN dm.q - 1
               ELSE IF local >= 86400000 THEN dm.q + 1
               ELSE dm.q
    IN YearOfDay(day)

(***************************************************************************)
(* timeUtils.ts                                                            *)
(***************************************************************************)
\* Mutant: 'seconds' for up to 10 digits, 'milliseconds' above.
DetectTimestampUnitByThreshold(str) ==
    LET numericTs == StripNonDigits(str)
    IN IF numericTs = <<>> THEN "unknown"
       ELSE IF Len(numericTs) <= 10 THEN "seconds"
       ELSE "milliseconds"

DetectTimestampUnit(str) ==
    LET numericTs == StripNonDigits(str)
    IN IF numericTs = <<>> THEN "unknown"
       ELSE IF Len(numericTs) = 10 THEN "seconds"
       ELSE IF Len(numericTs) = 13 THEN "milliseconds"
       ELSE "unknown"

IsValidTimestamp(value, tz) ==
    LET numericValue == StripNonDigits(value)
    IN IF numericValue = <<>> THEN FALSE
       ELSE LET num == ParseInt(numericValue)
                year == FullYear(IF Len(numericValue) >= 13 THEN num ELSE Times1000(num), tz)
            IN year >= 1970 /\ year <= 2100

\* timestampToDate(ts, isMs).date.getTime()
TimestampToDate(num, isMs) == IF isMs THEN num ELSE Times1000(num)

\* dateToTimestamp(date)
DateToTimestamp(ms) == [seconds |-> FloorDiv1000(ms), milliseconds |-> ms]

(***************************************************************************)
(* TimestampTool.tsx: the effect on [timestampInput, unit].  The formatted *)
(* local and UTC strings of the result are not modelled.                   *)
(***************************************************************************)
\* The unit the effect converts with.
IsMsFor(numericValue, unit) ==
    IF unit = "auto"
    THEN LET detected == DetectTimestampUnit(numericValue)
         IN IF detected = "unknown" THEN Len(numericValue) > 10
            ELSE detected = "milliseconds"
    ELSE unit = "milliseconds"

\* tsResult and error after the effect has run.
ConvertEffect(timestampInput, unit, tz) ==
    IF IsBlank(timestampInput) THEN [tsResult |-> NoResult, error |-> Null]
    ELSE LET numericValue == StripNonDigits(timestampInput)
         IN IF numericValue = <<>> THEN [tsResult |-> NoResult, error |-> "not-a-number"]
            ELSE IF ~IsValidTimestamp(numericValue, tz)
                 THEN [tsResult |-> NoResult, error |-> "out-of-range"]
            ELSE [ tsResult |->
                       DateToTimestamp(TimestampToDate(ParseInt(numericValue),
                                                       IsMsFor(numericValue, unit))),
                   error |->
                       IF unit = "auto" /\ DetectTimestampUnit(numericValue) = "unknown"
                       THEN "ambiguous-length" ELSE Null ]

Units == {"auto", "seconds", "milliseconds"}

\* Hours east of UTC of the time zones the page is opened in.
TzHours == {-8, 0, 8}

\* Digit strings: two leading digits, then zeros, cut to a length.
PadZeros(lead, len) == [k \in 1..len |-> IF k <= Len(lead) THEN lead[k] ELSE "0"]

TsLeads == { <<"1", "7">>, <<"4", "1">>, <<"9", "9">>, <<"0", "0">> }

\* What the user types around the digits.
Decorate(kind, digits) ==
    CASE kind = "plain" -> digits
      [] kind = "spaced" -> <<" ">> \o digits \o <<" ">>
      [] kind = "minus" -> <<"-">> \o digits
      [] kind = "fraction" -> digits \o <<".", "5">>

TsInputs ==
    { Decorate(kind, PadZeros(lead, len)) :
          kind \in {"plain", "spaced", "minus", "fraction"},
          lead \in TsLeads, len \in 0..MaxTsDigits }

\* State after a render in which the input or the unit changed.
TsAfter(timestampInput, unit) ==
    LET r == ConvertEffect(timestampInput, unit, ts.tz)
    IN [ts EXCEPT !.timestampInput = timestampInput, !.unit = unit,
                  !.tsResult = r.tsResult, !.error = r.error]

\* The page after mounting: the input saved by an earlier visit, unit 'auto',
\* and the effect run once.
InitTs ==
    /\ relation = "timestamp"
    /\ call = <<>>
    /\ js = JsIdle
    /\ \E tz \in TzHours, saved \in TsInputs :
           LET r == ConvertEffect(saved, "auto", tz)
           IN ts = [TsIdle EXCEPT !.tz = tz, !.timestampInput = saved,
                                  !.tsResult = r.tsResult, !.error = r.error]

SetTimestampInput ==
    /\ \E v \in TsInputs : ts' = TsAfter(v, ts.unit)
    /\ UNCHANGED <<call, relation, js>>

SetUnit ==
    /\ \E u \in Units : ts' = TsAfter(ts.timestampInput, u)
    /\ UNCHANGED <<call, relation, js>>

\* The clock's reading in seconds, as String() prints it.
NowSeconds == { PadZeros(lead, 10) : lead \in {<<"1", "7">>, <<"2", "0">>} }

HandleUseCurrentTime ==
    /\ \E now \in NowSeconds : ts' = TsAfter(now, ts.unit)
    /\ UNCHANGED <<call, relation, js>>

HandleClear ==
    /\ ts' = TsAfter(<<>>, ts.unit)
    /\ UNCHANGED <<call, relation, js>>

HandleExample ==
    /\ ts' = TsAfter(<<"1", "7", "0", "4", "0", "6", "7", "2", "0", "0">>, "auto")
    /\ UNCHANGED <<call, relation, js>>

NextTs ==
    \/ SetTimestampInput
    \/ SetUnit
    \/ HandleUseCurrentTime
    \/ HandleClear
    \/ HandleExample

SpecTs == InitTs /\ [][NextTs]_vars

(***************************************************************************)
(* JSON tool: contents are texts; the JSON values of the model are {}, an  *)
(* array of at most one digit, and a digit.                                *)
(***************************************************************************)
\* slice(0, 50), the 2000 ms of setTimeout in seconds, trim().length < 2.
HistoryLimit == 50
TimerDelay == 2
MinAutoSaveLength == 2

RECURSIVE StripWhitespace(_)
StripWhitespace(str) ==
    IF str = <<>> THEN <<>>
    ELSE IF IsWhitespace(Head(str)) THEN StripWhitespace(Tail(str))
    ELSE <<Head(str)>> \o StripWhitespace(Tail(str))

RECURSIVE TrimStart(_)
TrimStart(str) ==
    IF str # <<>> /\ IsWhitespace(Head(str)) THEN TrimStart(Tail(str)) ELSE str

\* String.prototype.trim()
Trim(str) == TrimStart(TrimEnd(str))

SyntaxError == [kind |-> "SyntaxError", items |-> <<>>]

\* JSON.parse: whitespace between tokens is skipped; every token of these
\* values is one character.
JsonParse(str) ==
    LET tokens == StripWhitespace(str)
    IN IF tokens = <<"{", "}">> THEN [kind |-> "object", items |-> <<>>]
       ELSE IF tokens = <<"[", "]">> THEN [kind |-> "array", items |-> <<>>]
       ELSE IF Len(tokens) = 3 /\ tokens[1] = "[" /\ IsDigit(tokens[2]) /\ tokens[3] = "]"
            THEN [kind |-> "array", items |-> <<DigitVal(tokens[2])>>]
       ELSE IF Len(tokens) = 1 /\ IsDigit(tokens[1])
            THEN [kind |-> "number", items |-> <<DigitVal(tokens[1])>>]
       ELSE SyntaxError

\* JSON.stringify(value, null, indent); indent 0 is JSON.stringify(value).
JsonStringify(value, indent) ==
    IF value.kind = "object" THEN <<"{", "}">>
    ELSE IF value.kind = "number" THEN <<DigitChars[value.items[1] + 1]>>
    ELSE IF value.items = <<>> THEN <<"[", "]">>
    ELSE IF indent = 0 THEN <<"[", DigitChars[value.items[1] + 1], "]">>
    ELSE <<"[", LF>> \o Fill(indent, " ") \o <<DigitChars[value.items[1] + 1], LF, "]">>

\* Mutant: one item more is kept.
KeepLastOneMore(items) ==
    IF Len(items) > HistoryLimit + 1 THEN SubSeq(items, 1, HistoryLimit + 1) ELSE items

\* slice(0, 50)
KeepLast(items) ==
    IF Len(items) > HistoryLimit THEN SubSeq(items, 1, HistoryLimit) ELSE items

\* The updater addToHistory hands to setHistory; id is the fresh id.
AddToHistory(prev, content, id) ==
    LET inserted == KeepLast(<<[id |-> id, content |-> content]>> \o prev)
    IN IF content = <<>> \/ Trim(content) \in {<<>>, <<"{", "}">>, <<"[", "]">>}
       THEN prev
       ELSE IF Len(prev) > 0
       THEN LET currentData == JsonParse(content)
                lastData == JsonParse(prev[1].content)
            IN IF currentData = SyntaxError \/ lastData = SyntaxError
               THEN IF prev[1].content = content THEN prev ELSE inserted
               ELSE IF JsonStringify(currentData, 0) = JsonStringify(lastData, 0)
               THEN IF prev[1].content = content THEN prev
                    ELSE <<[prev[1] EXCEPT !.content = content]>> \o Tail(prev)
               ELSE inserted
       ELSE inserted

\* Mutant: the cleanup of the effect is missing, a set timer stays.
TimersAfterChangeNoCleanup(timers, input) ==
    IF input = <<>> \/ Len(Trim(input)) < MinAutoSaveLength THEN timers
    ELSE timers \cup {[value |-> input, elapsed |-> 0]}

\* The auto-save effect after input changed: the cleanup clears the timer of
\* the run before, then a timer is set unless the input is too short.
TimersAfterChange(timers, input) ==
    IF input = <<>> \/ Len(Trim(input)) < MinAutoSaveLength THEN {}
    ELSE {[value |-> input, elapsed |-> 0]}

\* setInput(v) and the render after it.
WithInput(j, v) ==
    IF v = j.input THEN j
    ELSE [j EXCEPT !.input = v, !.sinceChange = 0,
                   !.timers = TimersAfterChange(j.timers, v)]

\* addToHistory(content) and the render after it.
WithHistory(j, content) ==
    LET next == AddToHistory(j.history, content, j.nextId)
    IN [j EXCEPT !.history = next,
                 !.nextId = IF Len(next) > 0 /\ next[1].id = j.nextId THEN @ + 1 ELSE @]

\* One more click or keystroke.
Stepped(j) == [j EXCEPT !.steps = @ + 1]

\* What is typed, pasted or uploaded.
JsContents ==
    { <<>>, <<"{", "}">>, <<"1">>, <<"[", "1", "]">>, <<"[", " ", "1", " ", "]">>,
      <<"[", "2", "]">>, <<"[", "1">> }

\* getJsonExample(): one fixed value, printed with indent 2.
ExampleContent == JsonStringify([kind |-> "array", items |-> <<9>>], 2)

\* The values a tree edit can leave.
EditedValues ==
    { [kind |-> "array", items |-> <<1>>], [kind |-> "array", items |-> <<2>>],
      [kind |-> "array", items |-> <<>>] }

\* The history found in localStorage: len items, newest first, with the ids
\* len .. 1 and contents that differ between neighbours.
StoredHistory(len) ==
    [k \in 1..len |->
        [id |-> len + 1 - k,
         content |-> IF k % 2 = 1 THEN <<"[", "1", "]">> ELSE <<"[", "2", "]">>]]

StoredLengths == {0, 1, HistoryLimit - 1, HistoryLimit}

\* parsedData is truthy.
ParsedDataShown(j) ==
    /\ j.input # <<>>
    /\ JsonParse(j.input) # SyntaxError
    /\ JsonParse(j.input) # [kind |-> "number", items |-> <<0>>]

\* The page after mounting, with the auto-save effect run once.
InitJson ==
    /\ relation = "json"
    /\ call = <<>>
    /\ ts = TsIdle
    /\ \E len \in StoredLengths, stored \in JsContents :
           js = [JsIdle EXCEPT !.input = stored,
                               !.history = StoredHistory(len),
                               !.nextId = len + 1,
                               !.timers = TimersAfterChange({}, stored)]

CanStep == js.steps < MaxJsonSteps

OnValueChange ==
    /\ CanStep
    /\ \E code \in JsContents : js' = Stepped(WithInput(js, code))
    /\ UNCHANGED <<call, relation, ts>>

HandleFileUpload ==
    /\ CanStep
    /\ \E content \in JsContents : js' = Stepped(WithInput(js, content))
    /\ UNCHANGED <<call, relation, ts>>

\* formatJson prints with indent 2, minifyJson without.
HandleFormat ==
    /\ CanStep
    /\ LET parsed == JsonParse(js.input)
           result == JsonStringify(parsed, 2)
       IN IF Trim(js.input) = <<>> \/ parsed = SyntaxError
          THEN js' = Stepped(js)
          ELSE js' = Stepped(WithHistory(WithInput(js, result), result))
    /\ UNCHANGED <<call, relation, ts>>

HandleMinify ==
    /\ CanStep
    /\ LET parsed == JsonParse(js.input)
           result == JsonStringify(parsed, 0)
       IN IF Trim(js.input) = <<>> \/ parsed = SyntaxError
          THEN js' = Stepped(js)
          ELSE js' = Stepped(WithHistory(WithInput(js, result), result))
    /\ UNCHANGED <<call, relation, ts>>

HandleValidate ==
    /\ CanStep
    /\ IF Trim(js.input) = <<>> \/ JsonParse(js.input) = SyntaxError
       THEN js' = Stepped(js)
       ELSE js' = Stepped(WithHistory(js, js.input))
    /\ UNCHANGED <<call, relation, ts>>

HandleJsonClear ==
    /\ CanStep
    /\ js' = Stepped(WithInput(js, <<>>))
    /\ UNCHANGED <<call, relation, ts>>

HandleJsonExample ==
    /\ CanStep
    /\ js' = Stepped(WithInput(js, ExampleContent))
    /\ UNCHANGED <<call, relation, ts>>

HandleIndentChange ==
    /\ CanStep
    /\ \E newIndent \in {2, 4} :
           LET parsed == JsonParse(js.input)
               j == [js EXCEPT !.indentation = newIndent]
           IN IF parsed = SyntaxError
              THEN js' = Stepped(j)
              ELSE js' = Stepped(WithInput(j, JsonStringify(parsed, newIndent)))
    /\ UNCHANGED <<call, relation, ts>>

ClearHistory ==
    /\ CanStep
    /\ js' = Stepped([js EXCEPT !.history = <<>>])
    /\ UNCHANGED <<call, relation, ts>>

\* prev.filter(item => item.id !== id), for the first or the last item shown.
DeleteHistoryItem ==
    /\ CanStep
    /\ Len(js.history) > 0
    /\ \E k \in {1, Len(js.history)} :
           js' = Stepped([js EXCEPT !.history =
                              SelectSeq(@, LAMBDA item : item.id # js.history[k].id)])
    /\ UNCHANGED <<call, relation, ts>>

\* setHistory([...history])
RefreshHistory ==
    /\ CanStep
    /\ js' = Stepped(js)
    /\ UNCHANGED <<call, relation, ts>>

\* A click on the first or the last item of the history list.
LoadHistoryItem ==
    /\ CanStep
    /\ Len(js.history) > 0
    /\ \E k \in {1, Len(js.history)} :
           js' = Stepped(WithInput(js, js.history[k].content))
    /\ UNCHANGED <<call, relation, ts>>

SetViewMode ==
    /\ CanStep
    /\ \E mode \in {"code", "tree"} : js' = Stepped([js EXCEPT !.viewMode = mode])
    /\ UNCHANGED <<call, relation, ts>>

\* onEdit, onDelete and onAdd of the tree view.
TreeEdit ==
    /\ CanStep
    /\ js.viewMode = "tree" /\ ParsedDataShown(js)
    /\ \E updated \in EditedValues :
           LET newContent == JsonStringify(updated, js.indentation)
           IN js' = Stepped(WithHistory(WithInput(js, newContent), newContent))
    /\ UNCHANGED <<call, relation, ts>>

\* One second passes.
Tick ==
    /\ \/ js.sinceChange < TimerDelay
       \/ \E t \in js.timers : t.elapsed < TimerDelay
    /\ js' = [js EXCEPT
                 !.sinceChange = IF @ < TimerDelay THEN @ + 1 ELSE @,
                 !.timers = { [t EXCEPT !.elapsed = IF @ < TimerDelay THEN @ + 1 ELSE @] :
                                  t \in js.timers }]
    /\ UNCHANGED <<call, relation, ts>>

\* The callback of setTimeout, not before the delay has passed.
TimerFires ==
    /\ \E t \in js.timers :
           /\ t.elapsed >= TimerDelay
           /\ LET j == [js EXCEPT !.timers = @ \ {t}]
              IN IF JsonParse(t.value) = SyntaxError
                 THEN js' = j
                 ELSE js' = WithHistory(j, t.value)
    /\ UNCHANGED <<call, relation, ts>>

NextJson ==
    \/ OnValueChange
    \/ HandleFileUpload
    \/ HandleFormat
    \/ HandleMinify
    \/ HandleValidate
    \/ HandleJsonClear
    \/ HandleJsonExample
    \/ HandleIndentChange
    \/ ClearHistory
    \/ DeleteHistoryItem
    \/ RefreshHistory
    \/ LoadHistoryItem
    \/ SetViewMode
    \/ TreeEdit
    \/ Tick
    \/ TimerFires

SpecJson == InitJson /\ [][NextJson]_vars

(***************************************************************************)
(* Vocabulary of the properties.                                           *)
(***************************************************************************)
Done(c) == call[c].pc = "done"

Count(statuses, v) == Cardinality({ k \in 1..Len(statuses) : statuses[k] = v })

AllUnchanged(r) ==
    /\ \A k \in 1..Len(r.oldStatuses) : r.oldStatuses[k] = "unchanged"
    /\ \A k \in 1..Len(r.newStatuses) : r.newStatuses[k] = "unchanged"

\* The number of line feed characters of a text.
CountLF(text) == Cardinality({ k \in 1..Len(text) : text[k] = LF })

\* s is a subsequence of t (reference definition, by greedy matching).
RECURSIVE IsSubseq(_, _)
IsSubseq(s, t) ==
    IF s = <<>> THEN TRUE
    ELSE IF t = <<>> THEN FALSE
    ELSE IF Head(s) = Head(t) THEN IsSubseq(Tail(s), Tail(t))
    ELSE IsSubseq(s, Tail(t))

Range(s) == { s[k] : k \in 1..Len(s) }

\* An op writes only indices the status arrays have.
OpInRange(op, n, m) ==
    /\ op.type \in {"equal", "remove", "modify"} => (op.oldIndex >= 0 /\ op.oldIndex < n)
    /\ op.type \in {"equal", "add", "modify"} => (op.newIndex >= 0 /\ op.newIndex < m)

\* The zero-based indices at which two key sequences of equal length differ.
DiffIndices(s, t) == { k \in 0..(Len(s) - 1) : At(s, k) # At(t, k) }

(***************************************************************************)
(* C1.  Identity: a call whose two input texts are the same text returns   *)
(* Unchanged for every line of both sides.                                 *)
(***************************************************************************)
C1_Identity ==
    \A c \in DOMAIN call :
        (Done(c) /\ call[c].oldText = call[c].newText)
            => AllUnchanged(call[c].result)

C1_Witness ==
    \E c \in DOMAIN call :
        /\ Done(c) /\ call[c].oldText = call[c].newText
        /\ Len(call[c].result.oldStatuses) = 3
        /\ call[c].oldTrimmed # call[c].oldText

(***************************************************************************)
(* C2.  The old status array has (number of line feeds of oldText) + 1     *)
(* entries and the new status array has (number of line feeds of           *)
(* newText) + 1 entries; the empty text counts as one line.                *)
(***************************************************************************)
C2_Lengths ==
    \A c \in DOMAIN call :
        Done(c) =>
            /\ Len(call[c].result.oldStatuses) = CountLF(call[c].oldText) + 1
            /\ Len(call[c].result.newStatuses) = CountLF(call[c].newText) + 1

\* An empty old text against a new text that ends with a line feed.
C2_Witness ==
    \E c \in DOMAIN call :
        /\ Done(c)
        /\ call[c].oldText = <<>>
        /\ Len(call[c].result.oldStatuses) = 1
        /\ Len(call[c].newText) > 0
        /\ call[c].newText[Len(call[c].newText)] = LF
        /\ Len(call[c].result.newStatuses) = 3

(***************************************************************************)
(* C3.  Substitution pairing: when both texts have the same number of      *)
(* lines and their keys differ at exactly one index k, both sides are      *)
(* Modified at k and Unchanged at every other index.                       *)
(***************************************************************************)
C3_SubstitutionPairing ==
    \A c \in DOMAIN call :
        (/\ Done(c)
         /\ call[c].n = call[c].m
         /\ Cardinality(DiffIndices(call[c].oldTrimmed, call[c].newTrimmed)) = 1)
            => \A k \in 0..(call[c].n - 1) :
                   LET expected ==
                           IF k \in DiffIndices(call[c].oldTrimmed, call[c].newTrimmed)
                           THEN "modified" ELSE "unchanged"
                   IN /\ At(call[c].result.oldStatuses, k) = expected
                      /\ At(call[c].result.newStatuses, k) = expected

\* Three lines each, differing in the middle one only.
C3_Witness ==
    \E c \in DOMAIN call :
        /\ Done(c)
        /\ call[c].n = 3 /\ call[c].m = 3
        /\ DiffIndices(call[c].oldTrimmed, call[c].newTrimmed) = {1}
        /\ call[c].result.oldStatuses = <<"unchanged", "modified", "unchanged">>

(***************************************************************************)
(* C4.  Pure insertion: when the old keys are a subsequence of the new     *)
(* keys, every old line is Unchanged, exactly m - n new lines are Added,   *)
(* nothing is Modified or Removed; and when exactly m - n new lines have a *)
(* key that does not occur in old, those lines are the Added ones.         *)
(***************************************************************************)
C4_PureInsertion ==
    \A c \in DOMAIN call :
        (Done(c) /\ IsSubseq(call[c].oldTrimmed, call[c].newTrimmed))
            => LET r == call[c].result
                   fresh == { k \in 0..(call[c].m - 1) :
                                  At(call[c].newTrimmed, k) \notin Range(call[c].oldTrimmed) }
               IN /\ Count(r.oldStatuses, "unchanged") = call[c].n
                  /\ Count(r.newStatuses, "added") = call[c].m - call[c].n
                  /\ Count(r.newStatuses, "unchanged") = call[c].n
                  /\ Cardinality(fresh) = call[c].m - call[c].n
                         => \A k \in 0..(call[c].m - 1) :
                                At(r.newStatuses, k) = "added" <=> k \in fresh

\* One line inserted in the middle.
C4_Witness ==
    \E c \in DOMAIN call :
        /\ Done(c)
        /\ IsSubseq(call[c].oldTrimmed, call[c].newTrimmed)
        /\ call[c].n = 2 /\ call[c].m = 3
        /\ call[c].result.newStatuses = <<"unchanged", "added", "unchanged">>

(***************************************************************************)
(* C5.  Pure deletion: when the new keys are a subsequence of the old      *)
(* keys, every new line is Unchanged, exactly n - m old lines are Removed, *)
(* nothing is Modified or Added; and when exactly n - m old lines have a   *)
(* key that does not occur in new, those lines are the Removed ones.       *)
(***************************************************************************)
C5_PureDeletion ==
    \A c \in DOMAIN call :
        (Done(c) /\ IsSubseq(call[c].newTrimmed, call[c].oldTrimmed))
            => LET r == call[c].result
                   gone == { k \in 0..(call[c].n - 1) :
                                 At(call[c].oldTrimmed, k) \notin Range(call[c].newTrimmed) }
               IN /\ Count(r.newStatuses, "unchanged") = call[c].m
                  /\ Count(r.oldStatuses, "removed") = call[c].n - call[c].m
                  /\ Count(r.oldStatuses, "unchanged") = call[c].m
                  /\ Cardinality(gone) = call[c].n - call[c].m
                         => \A k \in 0..(call[c].n - 1) :
                                At(r.oldStatuses, k) = "removed" <=> k \in gone

\* One line deleted in the middle.
C5_Witness ==
    \E c \in DOMAIN call :
        /\ Done(c)
        /\ IsSubseq(call[c].newTrimmed, call[c].oldTrimmed)
        /\ call[c].n = 3 /\ call[c].m = 2
        /\ call[c].result.oldStatuses = <<"unchanged", "removed", "unchanged">>

(***************************************************************************)
(* C6.  Trailing-whitespace insensitivity: a call on two texts whose lines *)
(* carry trailing whitespace (space, tab, carriage return) returns the     *)
(* same DiffResult as the call on the same texts without it; and when the  *)
(* two texts differ in trailing whitespace only, every line is Unchanged.  *)
(***************************************************************************)
C6_WhitespaceInsensitive ==
    relation = "strip" =>
        /\ (Done(1) /\ Done(2)) => call[1].result = call[2].result
        /\ (Done(1) /\ call[2].oldText = call[2].newText)
               => AllUnchanged(call[1].result)

\* The padded texts differ from the stripped ones and the diff is not trivial.
C6_Witness ==
    /\ relation = "strip"
    /\ Done(1) /\ Done(2)
    /\ call[1].oldText # call[2].oldText
    /\ call[1].newText # call[2].newText
    /\ call[1].oldText # call[1].newText
    /\ ~AllUnchanged(call[1].result)
    /\ Count(call[1].result.oldStatuses, "unchanged") > 0

(***************************************************************************)
(* C7.  Totality: no step of a call reads the matrix outside its range, no *)
(* op writes a status outside the status arrays, and the arrays returned   *)
(* have one entry per line, each one of unchanged, added, removed,         *)
(* modified.                                                               *)
(***************************************************************************)
C7_Totality ==
    \A c \in DOMAIN call :
        /\ (call[c].pc = "walk" /\ MainLoopCond(call[c].i, call[c].j))
               => ReadsInRange(call[c].dp, call[c].i, call[c].j)
        /\ \A k \in 1..Len(call[c].ops) : OpInRange(call[c].ops[k], call[c].n, call[c].m)
        /\ Done(c) =>
               /\ Len(call[c].result.oldStatuses) = call[c].n
               /\ Len(call[c].result.newStatuses) = call[c].m
               /\ Range(call[c].result.oldStatuses) \subseteq LineStatus
               /\ Range(call[c].result.newStatuses) \subseteq LineStatus

\* A call with an empty old text and a new text of three lines has returned.
C7_Witness ==
    \E c \in DOMAIN call :
        /\ Done(c)
        /\ call[c].oldText = <<>>
        /\ call[c].m = 3
        /\ Len(call[c].result.newStatuses) = 3

(***************************************************************************)
(* C8.  Symmetry of unchanged counts: diff(A, B) and diff(B, A) have the   *)
(* same number of Unchanged entries, on each side.                         *)
(***************************************************************************)
C8_UnchangedSymmetric ==
    (relation = "swap" /\ Done(1) /\ Done(2)) =>
        /\ Count(call[1].result.oldStatuses, "unchanged")
               = Count(call[2].result.newStatuses, "unchanged")
        /\ Count(call[1].result.newStatuses, "unchanged")
               = Count(call[2].result.oldStatuses, "unchanged")
        /\ Count(call[1].result.oldStatuses, "unchanged")
               = Count(call[2].result.oldStatuses, "unchanged")

\* Two different texts of different lengths with common lines and a
\* Modified pair.
C8_Witness ==
    /\ relation = "swap" /\ Done(1) /\ Done(2)
    /\ call[1].n # call[1].m
    /\ Count(call[1].result.oldStatuses, "unchanged") > 0
    /\ Count(call[1].result.oldStatuses, "modified") > 0

(***************************************************************************)
(* C9.  diff("", x) for a one-line x with a non-empty key: one status per  *)
(* side, and both are Modified.                                            *)
(***************************************************************************)
C9_EmptyVersusLine ==
    \A c \in DOMAIN call :
        (/\ Done(c)
         /\ call[c].oldText = <<>>
         /\ CountLF(call[c].newText) = 0
         /\ call[c].newTrimmed # << <<>> >>)
            => /\ call[c].result.oldStatuses = <<"modified">>
               /\ call[c].result.newStatuses = <<"modified">>

C9_Witness ==
    \E c \in DOMAIN call :
        /\ Done(c)
        /\ call[c].oldText = <<>>
        /\ call[c].newText = <<"a">>
        /\ call[c].result.oldStatuses = <<"modified">>

(***************************************************************************)
(* C10.  Exchanging the inputs does not exchange Added and Removed: for    *)
(* A = "b\n\na" and B = "a\n" the number of Added lines of diff(A, B)      *)
(* differs from the number of Removed lines of diff(B, A), and diff(A, B)  *)
(* has a Modified pair; for all A and B the two counts differ by exactly   *)
(* the difference of the numbers of Modified pairs.                        *)
(***************************************************************************)
SwapTextA == <<"b", LF, LF, "a">>
SwapTextB == <<"a", LF>>

C10_SwapNotMirror ==
    (relation = "swap" /\ Done(1) /\ Done(2)) =>
        LET added == Count(call[1].result.newStatuses, "added")
            removed == Count(call[2].result.oldStatuses, "removed")
            modified1 == Count(call[1].result.oldStatuses, "modified")
            modified2 == Count(call[2].result.oldStatuses, "modified")
        IN /\ added - removed = modified2 - modified1
           /\ (call[1].oldText = SwapTextA /\ call[1].newText = SwapTextB)
                  => (added # removed /\ modified1 > 0)

C10_Witness ==
    /\ relation = "swap" /\ Done(1) /\ Done(2)
    /\ call[1].oldText = SwapTextA /\ call[1].newText = SwapTextB
    /\ Count(call[1].result.newStatuses, "added") = 0
    /\ Count(call[2].result.oldStatuses, "removed") = 1
    /\ Count(call[1].result.oldStatuses, "modified") = 1
    /\ Count(call[2].result.oldStatuses, "modified") = 0

(***************************************************************************)
(* C11.  Termination: the backward walk started at (n, m) reaches (0, 0):  *)
(* i and j are never negative, every op emitted lowers i + j by 1 or 2, at *)
(* most n + m ops are emitted, the walk is over only at (0, 0), and the    *)
(* call returns: no loop iteration throws and every step either leaves a   *)
(* loop or statement for a later one or lowers i + j, so only finitely     *)
(* many steps separate the call from its return.                           *)
(***************************************************************************)
Walking(c) == call[c].pc \in {"walk", "drainRemove", "drainAdd"}

WalkBounded(c) ==
    /\ Walking(c) =>
           /\ call[c].i >= 0 /\ call[c].j >= 0
           /\ Len(call[c].ops) + call[c].i + call[c].j <= call[c].n + call[c].m
    /\ call[c].pc \in {"return", "done"} =>
           /\ call[c].i = 0 /\ call[c].j = 0
           /\ Len(call[c].ops) <= call[c].n + call[c].m

WalkDecreases(c) ==
    (Walking(c) /\ call'[c].ops # call[c].ops /\ call'[c].pc = call[c].pc) =>
        /\ Len(call'[c].ops) = Len(call[c].ops) + 1
        /\ call'[c].i + call'[c].j \in
               { call[c].i + call[c].j - 1, call[c].i + call[c].j - 2 }
        /\ call'[c].i \in { call[c].i, call[c].i - 1 }
        /\ call'[c].j \in { call[c].j, call[c].j - 1 }

\* The position of a call in its code, counted from the end.
Stage(c) ==
    CASE call[c].pc = "split" -> 6
      [] call[c].pc = "build" -> 5
      [] call[c].pc = "walk" -> 4
      [] call[c].pc = "drainRemove" -> 3
      [] call[c].pc = "drainAdd" -> 2
      [] call[c].pc = "return" -> 1
      [] call[c].pc = "done" -> 0

\* A step of call c ends a loop or a statement, or lowers i + j inside a loop.
Progresses(c) ==
    call'[c] # call[c] =>
        \/ Stage(c)' < Stage(c)
        \/ /\ Stage(c)' = Stage(c)
           /\ Walking(c)
           /\ call'[c].i + call'[c].j < call[c].i + call[c].j

\* No iteration of the main loop throws: the cells it reads exist.
NeverStuck(c) ==
    (call[c].pc = "walk" /\ MainLoopCond(call[c].i, call[c].j))
        => ReadsInRange(call[c].dp, call[c].i, call[c].j)

C11_Termination ==
    /\ [](\A c \in DOMAIN call : WalkBounded(c) /\ NeverStuck(c))
    /\ [][\A c \in DOMAIN call : WalkDecreases(c) /\ Progresses(c)]_vars

\* A call on two texts of three lines has returned after a walk that took
\* a step of 2 and a step of 1.
C11_Witness ==
    \E c \in DOMAIN call :
        /\ Done(c)
        /\ call[c].n = 3 /\ call[c].m = 3
        /\ call[c].i = 0 /\ call[c].j = 0
        /\ \E k \in 1..Len(call[c].ops) : call[c].ops[k].type = "modify"
        /\ \E k \in 1..Len(call[c].ops) : call[c].ops[k].type = "remove"

(***************************************************************************)
(* C12.  Concurrent invocations do not interfere: when the steps of two    *)
(* calls are interleaved in any order, each call returns the DiffResult    *)
(* that the same call returns when it runs alone, and a step of one call   *)
(* leaves the state of every other call as it was.                         *)
(***************************************************************************)
\* Call c + 2 is call c made again, alone.
Alone(c) == c + 2

StepOfOneCall ==
    \A c \in DOMAIN call, d \in DOMAIN call :
        (call'[c] # call[c] /\ d # c) => call'[d] = call[d]

C12_NoInterference ==
    /\ [](relation = "concurrent" =>
              \A c \in {1, 2} :
                  (Done(c) /\ Done(Alone(c))) => call[c].result = call[Alone(c)].result)
    /\ [][relation = "concurrent" => StepOfOneCall]_vars

\* Both interleaved calls and both calls made alone have returned, with
\* results that differ between the two.
C12_Witness ==
    /\ relation = "concurrent"
    /\ \A c \in DOMAIN call : Done(c)
    /\ call[1].result # call[2].result
    /\ call[1].dp # call[2].dp
    /\ Count(call[1].result.oldStatuses, "removed") > 0

\* Both calls are in the middle of their walks at the same time.
C12_Interleaved ==
    /\ relation = "concurrent"
    /\ call[1].pc = "walk" /\ Len(call[1].ops) > 0 /\ call[1].i > 0
    /\ call[2].pc = "walk" /\ Len(call[2].ops) > 0 /\ call[2].i > 0

(***************************************************************************)
(* C13  Timestamp auto-detection.  detectTimestampUnit answers 'seconds'   *)
(* exactly for an input with 10 digit characters, 'milliseconds' exactly   *)
(* for one with 13, and 'unknown' for every other count, zero included.    *)
(* In 'auto' mode with a detected unit the converter raises no ambiguity   *)
(* error, and the result it shows is the number read in the detected unit: *)
(* times 1000 for seconds, as it stands for milliseconds.                  *)
(***************************************************************************)
DigitCount(str) == Cardinality({ k \in 1..Len(str) : IsDigit(str[k]) })

DetectedAsCounted(str) ==
    /\ DetectTimestampUnit(str) = "seconds" <=> DigitCount(str) = 10
    /\ DetectTimestampUnit(str) = "milliseconds" <=> DigitCount(str) = 13
    /\ DetectTimestampUnit(str) = "unknown" <=> DigitCount(str) \notin {10, 13}

AutoUsesDetected ==
    LET detected == DetectTimestampUnit(ts.timestampInput)
        num == ParseInt(StripNonDigits(ts.timestampInput))
    IN (ts.unit = "auto" /\ detected # "unknown") =>
           /\ ts.error \in {Null, "out-of-range"}
           /\ ts.error = Null <=> ts.tsResult # NoResult
           /\ ts.tsResult # NoResult =>
                  /\ detected = "seconds" =>
                         /\ ts.tsResult.milliseconds = Times1000(num)
                         /\ ts.tsResult.seconds = num
                  /\ detected = "milliseconds" =>
                         /\ ts.tsResult.milliseconds = num
                         /\ ts.tsResult.seconds = FloorDiv1000(num)

C13_AutoDetection ==
    relation = "timestamp" =>
        /\ DetectedAsCounted(ts.timestampInput)
        /\ AutoUsesDetected

\* Auto mode has shown a 13-digit input with other characters around it as
\* milliseconds.
C13_Witness ==
    /\ relation = "timestamp"
    /\ ts.unit = "auto"
    /\ DigitCount(ts.timestampInput) = 13
    /\ Len(ts.timestampInput) > 13
    /\ ts.tsResult # NoResult
    /\ ts.tsResult.seconds = <<1, 7, 0, 0, 0, 0, 0, 0, 0, 0>>

\* Auto mode has shown a 10-digit input as seconds.
C13_WitnessSeconds ==
    /\ relation = "timestamp"
    /\ ts.unit = "auto"
    /\ DigitCount(ts.timestampInput) = 10
    /\ ts.tsResult # NoResult
    /\ ts.tsResult.milliseconds = <<1, 7, 0, 4, 0, 6, 7, 2, 0, 0, 0, 0, 0>>

(***************************************************************************)
(* C14  Matrix correctness.  After the build loops, for all 0 <= i <= n    *)
(* and 0 <= j <= m, dp[i][j] is the length of a longest common subsequence *)
(* of the first i old keys and the first j new keys.  The reference is the *)
(* definition itself: the greatest length of a sequence picked from the    *)
(* old prefix, in order, that is also a subsequence of the new prefix.     *)
(***************************************************************************)
\* The elements of s at the positions in S, in order.
RECURSIVE PickFrom(_, _, _)
PickFrom(s, S, k) ==
    IF k > Len(s) THEN <<>>
    ELSE (IF k \in S THEN <<s[k]>> ELSE <<>>) \o PickFrom(s, S, k + 1)

LcsLength(s, t) ==
    LET lengths == { Cardinality(S) :
                       S \in { T \in SUBSET (1..Len(s)) : IsSubseq(PickFrom(s, T, 1), t) } }
    IN CHOOSE len \in lengths : \A other \in lengths : other <= len

MatrixIsLcs(c) ==
    \A i \in 0..call[c].n, j \in 0..call[c].m :
        Cell(call[c].dp, i, j) =
            LcsLength(SubSeq(call[c].oldTrimmed, 1, i), SubSeq(call[c].newTrimmed, 1, j))

C14_MatrixCorrect ==
    \A c \in DOMAIN call :
        (call[c].pc = "walk" /\ call[c].ops = <<>>) => MatrixIsLcs(c)

\* A matrix of three old and three new keys whose corner is 2, reached with
\* a cell taken from the left and a cell taken from above.
C14_Witness ==
    \E c \in DOMAIN call :
        /\ call[c].pc = "walk" /\ call[c].ops = <<>>
        /\ call[c].n = 3 /\ call[c].m = 3
        /\ Cell(call[c].dp, 3, 3) = 2
        /\ Cell(call[c].dp, 1, 2) > Cell(call[c].dp, 0, 2)
        /\ Cell(call[c].dp, 2, 1) > Cell(call[c].dp, 2, 0)
        /\ Cell(call[c].dp, 1, 1) = 0

(***************************************************************************)
(* C15  The Modify tie-break never costs a match.  At every step of the    *)
(* walk, the number of Equal ops emitted so far plus dp[i][j] is dp[n][m]; *)
(* in every result the old side and the new side have the same number of   *)
(* Unchanged lines, and that number is dp[n][m].                           *)
(***************************************************************************)
OpCount(ops, type) == Cardinality({ k \in 1..Len(ops) : ops[k].type = type })

MatchesKept(c) ==
    Walking(c) =>
        OpCount(call[c].ops, "equal") + Cell(call[c].dp, call[c].i, call[c].j)
            = Cell(call[c].dp, call[c].n, call[c].m)

UnchangedIsLcs(c) ==
    Done(c) =>
        /\ Count(call[c].result.oldStatuses, "unchanged")
               = Cell(call[c].dp, call[c].n, call[c].m)
        /\ Count(call[c].result.newStatuses, "unchanged")
               = Cell(call[c].dp, call[c].n, call[c].m)

C15_ModifyKeepsMatches ==
    \A c \in DOMAIN call : MatchesKept(c) /\ UnchangedIsLcs(c)

\* A call has returned after a walk that emitted a Modify and then, further
\* up the matrix, an Equal and a Remove.
C15_Witness ==
    \E c \in DOMAIN call :
        /\ Done(c)
        /\ Cell(call[c].dp, call[c].n, call[c].m) = 1
        /\ \E k \in 1..Len(call[c].ops), l \in 1..Len(call[c].ops) :
               /\ k < l
               /\ call[c].ops[k].type = "equal"
               /\ call[c].ops[l].type = "modify"
        /\ OpCount(call[c].ops, "remove") > 0

(***************************************************************************)
(* C16  Tie-break policy.  A step of the main loop at (i, j), i > 0 and    *)
(* j > 0, emits Modify(i-1, j-1) if and only if the keys old[i-1] and      *)
(* new[j-1] differ and dp[i-1][j-1] >= dp[i-1][j] and dp[i-1][j-1] >=      *)
(* dp[i][j-1].  Wherever a Modify was emitted the four cells dp[i-1][j-1], *)
(* dp[i-1][j], dp[i][j-1] and dp[i][j] are equal, and the two keys it      *)
(* pairs differ.                                                           *)
(***************************************************************************)
LastOp(ops) == ops[Len(ops)]

DiagonalLosesNothing(c) ==
    /\ Cell(call[c].dp, call[c].i - 1, call[c].j - 1) >= Cell(call[c].dp, call[c].i - 1, call[c].j)
    /\ Cell(call[c].dp, call[c].i - 1, call[c].j - 1) >= Cell(call[c].dp, call[c].i, call[c].j - 1)

ModifyExactlyOnTie(c) ==
    (call[c].pc = "walk" /\ call[c].i > 0 /\ call[c].j > 0 /\ call'[c] # call[c]) =>
        /\ Len(call'[c].ops) = Len(call[c].ops) + 1
        /\ LastOp(call'[c].ops) = ModifyOp(call[c].i, call[c].j)
               <=> (/\ At(call[c].oldTrimmed, call[c].i - 1) # At(call[c].newTrimmed, call[c].j - 1)
                    /\ DiagonalLosesNothing(c))
        /\ LastOp(call'[c].ops).type = "modify"
               => LastOp(call'[c].ops) = ModifyOp(call[c].i, call[c].j)

ModifyOnPlateau(c) ==
    (call[c].pc # "split" /\ call[c].pc # "build") =>
        \A k \in 1..Len(call[c].ops) :
            call[c].ops[k].type = "modify" =>
                LET i == call[c].ops[k].oldIndex + 1
                    j == call[c].ops[k].newIndex + 1
                    dp == call[c].dp
                IN /\ At(call[c].oldTrimmed, i - 1) # At(call[c].newTrimmed, j - 1)
                   /\ Cell(dp, i - 1, j - 1) = Cell(dp, i, j)
                   /\ Cell(dp, i - 1, j) = Cell(dp, i, j)
                   /\ Cell(dp, i, j - 1) = Cell(dp, i, j)

C16_TieBreak ==
    /\ [](\A c \in DOMAIN call : ModifyOnPlateau(c))
    /\ [][\A c \in DOMAIN call : ModifyExactlyOnTie(c)]_vars

\* The walk has emitted a Modify on a plateau of value 1, and a Remove at a
\* position where the keys differed and the diagonal would have lost.
C16_Witness ==
    \E c \in DOMAIN call :
        /\ call[c].pc = "walk"
        /\ \E k \in 1..Len(call[c].ops) :
               /\ call[c].ops[k].type = "modify"
               /\ Cell(call[c].dp, call[c].ops[k].oldIndex + 1,
                       call[c].ops[k].newIndex + 1) = 1
        /\ OpCount(call[c].ops, "remove") > 0

(***************************************************************************)
(* C17  Edit-script coverage.  In the op sequence of a call every old      *)
(* index 0..n-1 is carried by exactly one Equal, Remove or Modify op and   *)
(* every new index 0..m-1 by exactly one Equal, Add or Modify op.  While   *)
(* the walk is at (i, j) this holds of the indices from i and from j up,   *)
(* and no index below them has been carried yet.                           *)
(***************************************************************************)
OldCarriers(ops, x) ==
    { k \in 1..Len(ops) : ops[k].type \in {"equal", "remove", "modify"} /\ ops[k].oldIndex = x }

NewCarriers(ops, x) ==
    { k \in 1..Len(ops) : ops[k].type \in {"equal", "add", "modify"} /\ ops[k].newIndex = x }

CoveredOnce(c) ==
    (call[c].pc \notin {"split", "build"}) =>
        /\ \A x \in 0..(call[c].n - 1) :
               Cardinality(OldCarriers(call[c].ops, x)) = (IF x >= call[c].i THEN 1 ELSE 0)
        /\ \A x \in 0..(call[c].m - 1) :
               Cardinality(NewCarriers(call[c].ops, x)) = (IF x >= call[c].j THEN 1 ELSE 0)
        /\ \A k \in 1..Len(call[c].ops) : OpInRange(call[c].ops[k], call[c].n, call[c].m)

C17_Coverage ==
    \A c \in DOMAIN call :
        /\ CoveredOnce(c)
        /\ call[c].pc \in {"return", "done"} => (call[c].i = 0 /\ call[c].j = 0)

\* A finished op sequence over three old and three new lines in which all
\* four kinds of op carry an index.
C17_Witness ==
    \E c \in DOMAIN call :
        /\ Done(c)
        /\ call[c].n = 3 /\ call[c].m = 3
        /\ OpCount(call[c].ops, "equal") > 0
        /\ OpCount(call[c].ops, "remove") > 0
        /\ OpCount(call[c].ops, "add") > 0
        /\ OpCount(call[c].ops, "modify") > 0

(***************************************************************************)
(* C18  The reconstruction follows the rule list.  At a position (i, j)    *)
(* other than (0, 0) the rules are read as a chain: Equal when i, j > 0    *)
(* and the keys are equal; else Modify when i, j > 0 and the diagonal cell *)
(* is at least both neighbours; else Remove when i > 0 and either j = 0 or *)
(* the cell above is at least the cell to the left; else Add.  The cells   *)
(* are LCS lengths of key prefixes, so the rule is a function of the keys. *)
(* Every op the main loop or a drain emits is the op of the rule at the    *)
(* position it was emitted from, nothing is emitted at (0, 0), and the     *)
(* finished sequence is the one the rules prescribe from (n, m).           *)
(***************************************************************************)
LcsCell(old, new, i, j) == LcsLength(SubSeq(old, 1, i), SubSeq(new, 1, j))

\* The rule of the chain that applies at (i, j): the guards in their order.
RuleGuards(old, new, i, j) ==
    LET inside == i > 0 /\ j > 0
        diag == LcsCell(old, new, i - 1, j - 1)
        above == LcsCell(old, new, i - 1, j)
        left == LcsCell(old, new, i, j - 1)
        isEqual == inside /\ At(old, i - 1) = At(new, j - 1)
        isModify == ~isEqual /\ inside /\ diag >= above /\ diag >= left
        isRemove == ~isEqual /\ ~isModify /\ i > 0 /\ (j = 0 \/ above >= left)
        isAdd == ~isEqual /\ ~isModify /\ ~isRemove /\ j > 0
    IN [equal |-> isEqual, modify |-> isModify, remove |-> isRemove, add |-> isAdd]

\* The op and the next position the rule list gives at (i, j).
RuleStep(old, new, i, j) ==
    LET g == RuleGuards(old, new, i, j)
    IN IF g.equal
       THEN [op |-> [type |-> "equal", oldIndex |-> i - 1, newIndex |-> j - 1],
             i |-> i - 1, j |-> j - 1]
       ELSE IF g.modify
       THEN [op |-> [type |-> "modify", oldIndex |-> i - 1, newIndex |-> j - 1],
             i |-> i - 1, j |-> j - 1]
       ELSE IF g.remove
       THEN [op |-> [type |-> "remove", oldIndex |-> i - 1], i |-> i - 1, j |-> j]
       ELSE [op |-> [type |-> "add", newIndex |-> j - 1], i |-> i, j |-> j - 1]

\* The ops the rule list emits from (i, j) down to (0, 0), in emission order.
RECURSIVE RuleWalk(_, _, _, _)
RuleWalk(old, new, i, j) ==
    IF i <= 0 /\ j <= 0 THEN <<>>
    ELSE LET s == RuleStep(old, new, i, j)
         IN <<s.op>> \o RuleWalk(old, new, s.i, s.j)

ExactlyOneRule(old, new, i, j) ==
    LET g == RuleGuards(old, new, i, j)
    IN Cardinality({ r \in DOMAIN g : g[r] }) = 1

EmitsByRule(c) ==
    (Walking(c) /\ call'[c].pc = call[c].pc /\ call'[c] # call[c]) =>
        LET s == RuleStep(call[c].oldTrimmed, call[c].newTrimmed, call[c].i, call[c].j)
        IN /\ call[c].i >= 0 /\ call[c].j >= 0
           /\ call[c].i > 0 \/ call[c].j > 0
           /\ call'[c].ops = Append(call[c].ops, s.op)
           /\ call'[c].i = s.i /\ call'[c].j = s.j

RuleApplies(c) ==
    (Walking(c) /\ (call[c].i > 0 \/ call[c].j > 0)) =>
        ExactlyOneRule(call[c].oldTrimmed, call[c].newTrimmed, call[c].i, call[c].j)

ScriptByRule(c) ==
    call[c].pc \in {"return", "done"} =>
        call[c].ops = Reverse(RuleWalk(call[c].oldTrimmed, call[c].newTrimmed,
                                       call[c].n, call[c].m))

C18_FollowsRuleList ==
    /\ [](\A c \in DOMAIN call : RuleApplies(c) /\ ScriptByRule(c))
    /\ [][\A c \in DOMAIN call : EmitsByRule(c)]_vars

\* A finished sequence in which the main loop emitted an Equal, a Modify and
\* an Add, and the Remove drain emitted the op of old line 0.
C18_Witness ==
    \E c \in DOMAIN call :
        /\ Done(c)
        /\ OpCount(call[c].ops, "equal") > 0
        /\ OpCount(call[c].ops, "modify") > 0
        /\ OpCount(call[c].ops, "add") > 0
        /\ call[c].ops[1] = [type |-> "remove", oldIndex |-> 0]
        /\ call[c].ops[2].type \in {"equal", "modify"}
        /\ call[c].ops[2].newIndex = 0

(***************************************************************************)
(* C19  Remove is favoured over Add on a tie.  A step of the main loop at  *)
(* (i, j), i > 0 and j > 0, with unequal keys and the diagonal cell below  *)
(* one of its neighbours, emits Remove(i-1) when dp[i-1][j] = dp[i][j-1],  *)
(* and emits Add(j-1) only when dp[i][j-1] > dp[i-1][j].  The diff of      *)
(* "a\nb" against "b\na" is old = [unchanged, removed], new = [added,      *)
(* unchanged].                                                             *)
(***************************************************************************)
TieTextOld == <<"a", LF, "b">>
TieTextNew == <<"b", LF, "a">>

NeitherEqualNorModify(c) ==
    /\ call[c].pc = "walk" /\ call[c].i > 0 /\ call[c].j > 0
    /\ At(call[c].oldTrimmed, call[c].i - 1) # At(call[c].newTrimmed, call[c].j - 1)
    /\ ~DiagonalLosesNothing(c)

RemoveOnTie(c) ==
    (NeitherEqualNorModify(c) /\ call'[c] # call[c]) =>
        LET above == Cell(call[c].dp, call[c].i - 1, call[c].j)
            left == Cell(call[c].dp, call[c].i, call[c].j - 1)
            emitted == LastOp(call'[c].ops)
        IN /\ Len(call'[c].ops) = Len(call[c].ops) + 1
           /\ emitted.type \in {"remove", "add"}
           /\ above = left =>
                  /\ emitted = [type |-> "remove", oldIndex |-> call[c].i - 1]
                  /\ call'[c].i = call[c].i - 1 /\ call'[c].j = call[c].j
           /\ emitted.type = "add" =>
                  /\ left > above
                  /\ emitted = [type |-> "add", newIndex |-> call[c].j - 1]
                  /\ call'[c].i = call[c].i /\ call'[c].j = call[c].j - 1
           /\ left > above => emitted.type = "add"

TieExample(c) ==
    (Done(c) /\ call[c].oldText = TieTextOld /\ call[c].newText = TieTextNew) =>
        call[c].result = [oldStatuses |-> <<"unchanged", "removed">>,
                          newStatuses |-> <<"added", "unchanged">>]

C19_RemoveOnTie ==
    /\ [](\A c \in DOMAIN call : TieExample(c))
    /\ [][\A c \in DOMAIN call : RemoveOnTie(c)]_vars

\* The diff of "a\nb" against "b\na" has returned; its first step was a
\* Remove taken on a tie of the cell above and the cell to the left.
C19_Witness ==
    \E c \in DOMAIN call :
        /\ Done(c)
        /\ call[c].oldText = TieTextOld /\ call[c].newText = TieTextNew
        /\ Cell(call[c].dp, 1, 2) = Cell(call[c].dp, 2, 1)
        /\ Cell(call[c].dp, 1, 1) < Cell(call[c].dp, 1, 2)
        /\ call[c].ops[Len(call[c].ops)] = [type |-> "remove", oldIndex |-> 1]

\* The main loop has just emitted an Add, from a position where the cell to
\* the left was greater than the cell above.
C19_WitnessAdd ==
    \E c \in DOMAIN call :
        /\ call[c].pc = "walk" /\ call[c].i > 0 /\ Len(call[c].ops) > 0
        /\ LastOp(call[c].ops) = [type |-> "add", newIndex |-> call[c].j]
        /\ Cell(call[c].dp, call[c].i, call[c].j)
               > Cell(call[c].dp, call[c].i - 1, call[c].j + 1)

(***************************************************************************)
(* C20  Boundary drain.  The main loop is left only with i = 0 or j = 0.   *)
(* From j = 0 with i > 0 the Remove drain emits Remove(i-1) and lowers i,  *)
(* and it is left only at i = 0, so old lines 0..i-1 are all emitted as    *)
(* Remove; from i = 0 with j > 0 the Add drain emits Add(j-1) and lowers   *)
(* j down to 0.  Every line a Remove carries ends up removed and every     *)
(* line an Add carries ends up added.  The Remove drain emits only at      *)
(* j = 0, the Add drain only at j > 0, and j never grows: at most one of   *)
(* the two emits in a call.                                                *)
(***************************************************************************)
AtBoundary(c) ==
    /\ call[c].pc = "drainRemove" =>
           /\ call[c].i >= 0 /\ call[c].j >= 0
           /\ call[c].i = 0 \/ call[c].j = 0
    /\ call[c].pc = "drainAdd" => (call[c].i = 0 /\ call[c].j >= 0)

DrainedLinesEndUp(c) ==
    Done(c) =>
        \A k \in 1..Len(call[c].ops) :
            /\ call[c].ops[k].type = "remove" =>
                   At(call[c].result.oldStatuses, call[c].ops[k].oldIndex) = "removed"
            /\ call[c].ops[k].type = "add" =>
                   At(call[c].result.newStatuses, call[c].ops[k].newIndex) = "added"

DrainStep(c) ==
    /\ (call[c].pc = "drainRemove" /\ call'[c] # call[c]) =>
           IF call[c].i > 0
           THEN /\ call[c].j = 0
                /\ call'[c] = [call[c] EXCEPT
                                  !.ops = Append(@, [type |-> "remove",
                                                     oldIndex |-> call[c].i - 1]),
                                  !.i = @ - 1]
           ELSE call'[c] = [call[c] EXCEPT !.pc = "drainAdd"]
    /\ (call[c].pc = "drainAdd" /\ call'[c] # call[c]) =>
           IF call[c].j > 0
           THEN call'[c] = [call[c] EXCEPT
                               !.ops = Append(@, [type |-> "add",
                                                  newIndex |-> call[c].j - 1]),
                               !.j = @ - 1]
           ELSE call'[c].pc = "return" /\ Len(call'[c].ops) = Len(call[c].ops)
    /\ Walking(c) => call'[c].j <= call[c].j

C20_BoundaryDrain ==
    /\ [](\A c \in DOMAIN call : AtBoundary(c) /\ DrainedLinesEndUp(c))
    /\ [][\A c \in DOMAIN call : DrainStep(c)]_vars

\* The Remove drain has emitted old lines 1 and 0 after a main loop that
\* consumed the only new line.
C20_Witness ==
    \E c \in DOMAIN call :
        /\ call[c].pc = "drainRemove"
        /\ call[c].n = 3 /\ call[c].m = 1
        /\ call[c].i = 0 /\ call[c].j = 0
        /\ Len(call[c].ops) = 3
        /\ call[c].ops[1].type \in {"equal", "modify"}
        /\ call[c].ops[2] = [type |-> "remove", oldIndex |-> 1]
        /\ call[c].ops[3] = [type |-> "remove", oldIndex |-> 0]

\* The Add drain has emitted new lines 1 and 0, and the lines are added in
\* the result.
C20_WitnessAdd ==
    \E c \in DOMAIN call :
        /\ Done(c)
        /\ call[c].n = 1 /\ call[c].m = 3
        /\ call[c].ops[1] = [type |-> "add", newIndex |-> 0]
        /\ call[c].ops[2] = [type |-> "add", newIndex |-> 1]
        /\ call[c].result.newStatuses = <<"added", "added", "unchanged">>

(***************************************************************************)
(* C21  Status projection.  In the returned result an old line is removed  *)
(* iff the op carrying it is a Remove, modified iff it is a Modify and     *)
(* unchanged iff it is an Equal; a new line is added iff its op is an Add, *)
(* modified iff it is a Modify and unchanged iff it is an Equal.  So       *)
(* oldStatuses never holds 'added' and newStatuses never holds 'removed'.  *)
(***************************************************************************)
OldStatusOf(type) ==
    CASE type = "equal" -> "unchanged"
      [] type = "remove" -> "removed"
      [] type = "modify" -> "modified"

NewStatusOf(type) ==
    CASE type = "equal" -> "unchanged"
      [] type = "add" -> "added"
      [] type = "modify" -> "modified"

ProjectedFromOps(c) ==
    Done(c) =>
        /\ Len(call[c].result.oldStatuses) = call[c].n
        /\ Len(call[c].result.newStatuses) = call[c].m
        /\ \A x \in 0..(call[c].n - 1) :
               /\ OldCarriers(call[c].ops, x) # {}
               /\ \A k \in OldCarriers(call[c].ops, x) :
                      At(call[c].result.oldStatuses, x) = OldStatusOf(call[c].ops[k].type)
        /\ \A x \in 0..(call[c].m - 1) :
               /\ NewCarriers(call[c].ops, x) # {}
               /\ \A k \in NewCarriers(call[c].ops, x) :
                      At(call[c].result.newStatuses, x) = NewStatusOf(call[c].ops[k].type)
        /\ "added" \notin Range(call[c].result.oldStatuses)
        /\ "removed" \notin Range(call[c].result.newStatuses)

C21_StatusProjection == \A c \in DOMAIN call : ProjectedFromOps(c)

\* A result whose old side holds all three old statuses and whose new side
\* holds all three new statuses.
C21_Witness ==
    \E c \in DOMAIN call :
        /\ Done(c)
        /\ Range(call[c].result.oldStatuses) = {"unchanged", "removed", "modified"}
        /\ Range(call[c].result.newStatuses) = {"unchanged", "added", "modified"}

(***************************************************************************)
(* C22  Op ordering.  After the final reversal the old indices carried by  *)
(* Equal, Remove and Modify ops read 0, 1, ..., n-1 in the order of the    *)
(* ops, and the new indices carried by Equal, Add and Modify ops read      *)
(* 0, 1, ..., m-1; of two Equal or Modify ops the earlier has the smaller  *)
(* old index and the smaller new index.                                    *)
(***************************************************************************)
RECURSIVE OldIndices(_)
OldIndices(ops) ==
    IF ops = <<>> THEN <<>>
    ELSE (IF Head(ops).type \in {"equal", "remove", "modify"}
          THEN <<Head(ops).oldIndex>> ELSE <<>>) \o OldIndices(Tail(ops))

RECURSIVE NewIndices(_)
NewIndices(ops) ==
    IF ops = <<>> THEN <<>>
    ELSE (IF Head(ops).type \in {"equal", "add", "modify"}
          THEN <<Head(ops).newIndex>> ELSE <<>>) \o NewIndices(Tail(ops))

PairsDoNotCross(ops) ==
    \A k \in 1..Len(ops), l \in 1..Len(ops) :
        (/\ k < l
         /\ ops[k].type \in {"equal", "modify"}
         /\ ops[l].type \in {"equal", "modify"}) =>
            (ops[k].oldIndex < ops[l].oldIndex /\ ops[k].newIndex < ops[l].newIndex)

C22_OpOrdering ==
    \A c \in DOMAIN call :
        call[c].pc \in {"return", "done"} =>
            /\ OldIndices(call[c].ops) = [x \in 1..call[c].n |-> x - 1]
            /\ NewIndices(call[c].ops) = [x \in 1..call[c].m |-> x - 1]
            /\ PairsDoNotCross(call[c].ops)

\* A reversed sequence with two pairs, a Remove between them and an Add
\* after them.
C22_Witness ==
    \E c \in DOMAIN call :
        /\ call[c].pc = "return"
        /\ Len(call[c].ops) = 4
        /\ call[c].ops[1].type \in {"equal", "modify"}
        /\ call[c].ops[2].type = "remove"
        /\ call[c].ops[3].type \in {"equal", "modify"}
        /\ call[c].ops[4].type = "add"

(***************************************************************************)
(* C23  Matrix shape.  After the build loops dp has n+1 rows of m+1        *)
(* non-negative integers, row 0 and column 0 are all 0, the cells do not   *)
(* decrease along either axis, and no later step of the call changes dp.   *)
(***************************************************************************)
MatrixBuilt(c) == call[c].pc \notin {"split", "build"}

MatrixShape(c) ==
    MatrixBuilt(c) =>
        LET dp == call[c].dp
            n == call[c].n
            m == call[c].m
        IN /\ n = Len(call[c].oldTrimmed) /\ m = Len(call[c].newTrimmed)
           /\ Len(dp) = n + 1
           /\ \A i \in 0..n : Len(dp[i + 1]) = m + 1
           /\ \A i \in 0..n, j \in 0..m : Cell(dp, i, j) \in Nat
           /\ \A j \in 0..m : Cell(dp, 0, j) = 0
           /\ \A i \in 0..n : Cell(dp, i, 0) = 0
           /\ \A i \in 1..n, j \in 0..m : Cell(dp, i - 1, j) <= Cell(dp, i, j)
           /\ \A i \in 0..n, j \in 1..m : Cell(dp, i, j - 1) <= Cell(dp, i, j)

MatrixFrozen(c) == MatrixBuilt(c) => call'[c].dp = call[c].dp

C23_MatrixShape ==
    /\ [](\A c \in DOMAIN call : MatrixShape(c))
    /\ [][\A c \in DOMAIN call : MatrixFrozen(c)]_vars

\* A call has returned with a 4 by 4 matrix that rises to 2 along the last
\* row and along the last column.
C23_Witness ==
    \E c \in DOMAIN call :
        /\ Done(c)
        /\ call[c].n = 3 /\ call[c].m = 3
        /\ Cell(call[c].dp, 3, 1) = 0 /\ Cell(call[c].dp, 3, 2) = 1
        /\ Cell(call[c].dp, 3, 3) = 2
        /\ Cell(call[c].dp, 1, 3) = 0 /\ Cell(call[c].dp, 2, 3) = 1

(***************************************************************************)
(* C24  No delete and insert side by side.  In the op sequence of a call,  *)
(* while it is pushed and after it is reversed, a Remove is never next to  *)
(* an Add in either order, and between any Remove and any Add there is an  *)
(* Equal or a Modify.                                                      *)
(***************************************************************************)
RemoveNextToAdd(ops) ==
    \E k \in 1..(Len(ops) - 1) :
        {ops[k].type, ops[k + 1].type} = {"remove", "add"}

RemoveAddSeparated(ops) ==
    \A k \in 1..Len(ops), l \in 1..Len(ops) :
        (k < l /\ {ops[k].type, ops[l].type} = {"remove", "add"}) =>
            \E x \in (k + 1)..(l - 1) : ops[x].type \in {"equal", "modify"}

C24_NoRemoveNextToAdd ==
    \A c \in DOMAIN call :
        MatrixBuilt(c) =>
            /\ ~RemoveNextToAdd(call[c].ops)
            /\ RemoveAddSeparated(call[c].ops)

\* A finished sequence that holds a Remove and an Add, with one pair between
\* them.
C24_Witness ==
    \E c \in DOMAIN call :
        /\ Done(c)
        /\ \E k \in 1..(Len(call[c].ops) - 2) :
               /\ call[c].ops[k].type = "remove"
               /\ call[c].ops[k + 1].type \in {"equal", "modify"}
               /\ call[c].ops[k + 2].type = "add"

(***************************************************************************)
(* C25  Every result holds a pair.  The op sequence of every call has at   *)
(* least one Equal or Modify; old line 0 and new line 0 are never removed  *)
(* and added at the same time; oldStatuses is never all removed and        *)
(* newStatuses never all added, for an empty text and for texts that share *)
(* no line as well.                                                        *)
(***************************************************************************)
HasPair(ops) == \E k \in 1..Len(ops) : ops[k].type \in {"equal", "modify"}

C25_AlwaysAPair ==
    \A c \in DOMAIN call :
        Done(c) =>
            /\ call[c].n >= 1 /\ call[c].m >= 1
            /\ HasPair(call[c].ops)
            /\ ~(/\ At(call[c].result.oldStatuses, 0) = "removed"
                 /\ At(call[c].result.newStatuses, 0) = "added")
            /\ Range(call[c].result.oldStatuses) # {"removed"}
            /\ Range(call[c].result.newStatuses) # {"added"}

\* The empty text against three lines that are not empty: one Modify, and
\* the rest of the new side added.
C25_Witness ==
    \E c \in DOMAIN call :
        /\ Done(c)
        /\ call[c].oldText = <<>>
        /\ call[c].m = 3
        /\ call[c].result.oldStatuses = <<"modified">>
        /\ Count(call[c].result.newStatuses, "added") = 2
        /\ At(call[c].result.newStatuses, 0) = "added"

\* Texts that share no line: old line 0 is removed, new line 0 is modified.
C25_WitnessDisjoint ==
    \E c \in DOMAIN call :
        /\ Done(c)
        /\ Cell(call[c].dp, call[c].n, call[c].m) = 0
        /\ At(call[c].result.oldStatuses, 0) = "removed"
        /\ At(call[c].result.newStatuses, 0) = "modified"

(***************************************************************************)
(* C26  Modified lines come in pairs.  In every result oldStatuses and     *)
(* newStatuses hold the same number of 'modified' entries, so the count    *)
(* the summary shows, the greater of the two, is each of them.             *)
(***************************************************************************)
\* The summary of the JsonDiff component: the number after "modified lines".
ModifiedSummary(result) ==
    Max(Count(result.oldStatuses, "modified"), Count(result.newStatuses, "modified"))

C26_ModifiedInPairs ==
    \A c \in DOMAIN call :
        Done(c) =>
            /\ Count(call[c].result.oldStatuses, "modified")
                   = Count(call[c].result.newStatuses, "modified")
            /\ Count(call[c].result.oldStatuses, "modified") = OpCount(call[c].ops, "modify")
            /\ ModifiedSummary(call[c].result) = Count(call[c].result.oldStatuses, "modified")
            /\ ModifiedSummary(call[c].result) = Count(call[c].result.newStatuses, "modified")

\* A result with two modified lines on each side, and sides of different
\* lengths.
C26_Witness ==
    \E c \in DOMAIN call :
        /\ Done(c)
        /\ call[c].n # call[c].m
        /\ ModifiedSummary(call[c].result) = 2
        /\ Count(call[c].result.oldStatuses, "removed")
               + Count(call[c].result.newStatuses, "added") > 0

(***************************************************************************)
(* C27  Disjoint inputs are paired from the end.  When no old key equals   *)
(* any new key, with k the smaller of n and m, the last k lines of each    *)
(* side are modified, the first n-k old lines are removed and the first    *)
(* m-k new lines are added; no line is unchanged.  The diff of "x" against *)
(* "p\nq" is old = [modified], new = [added, modified].                    *)
(***************************************************************************)
Min(a, b) == IF a <= b THEN a ELSE b

Disjoint(c) == Range(call[c].oldTrimmed) \cap Range(call[c].newTrimmed) = {}

\* len entries: first, then `paired` entries 'modified' at the end.
PairedFromEnd(len, paired, first) ==
    [x \in 1..len |-> IF x > len - paired THEN "modified" ELSE first]

C27_DisjointPairedFromEnd ==
    \A c \in DOMAIN call :
        /\ (Done(c) /\ Disjoint(c)) =>
               LET k == Min(call[c].n, call[c].m)
               IN /\ call[c].result.oldStatuses = PairedFromEnd(call[c].n, k, "removed")
                  /\ call[c].result.newStatuses = PairedFromEnd(call[c].m, k, "added")
                  /\ "unchanged" \notin Range(call[c].result.oldStatuses)
                  /\ "unchanged" \notin Range(call[c].result.newStatuses)
        /\ (Done(c) /\ call[c].oldText = <<"x">> /\ call[c].newText = <<"p", LF, "q">>) =>
               call[c].result = [oldStatuses |-> <<"modified">>,
                                 newStatuses |-> <<"added", "modified">>]

\* The diff of "x" against "p\nq" has returned.
C27_Witness ==
    \E c \in DOMAIN call :
        /\ Done(c)
        /\ call[c].oldText = <<"x">> /\ call[c].newText = <<"p", LF, "q">>
        /\ Disjoint(c)
        /\ call[c].result.newStatuses = <<"added", "modified">>

\* Three old lines against two new lines that share no key with them.
C27_WitnessRemoved ==
    \E c \in DOMAIN call :
        /\ Done(c) /\ Disjoint(c)
        /\ call[c].n = 3 /\ call[c].m = 2
        /\ call[c].result.oldStatuses = <<"removed", "modified", "modified">>

(***************************************************************************)
(* C28  JSON history bound.  Starting from a stored history of at most 50  *)
(* items, after any sequence of additions, deletions and clearings the     *)
(* history holds at most 50 items.  A step that inserts an item puts it at *)
(* index 0 with the items before it kept in order behind it, and drops the *)
(* last of them when there were 50.  Adding content whose parsed JSON      *)
(* equals that of the first item never makes the history longer.           *)
(***************************************************************************)
HistoryIds(history) == { history[k].id : k \in 1..Len(history) }

Inserted == Len(js'.history) > 0 /\ js'.history[1].id \notin HistoryIds(js.history)

InsertAtFront ==
    Inserted =>
        /\ js'.history[1].id = js.nextId
        /\ Tail(js'.history) =
               (IF Len(js.history) >= 50 THEN SubSeq(js.history, 1, 49) ELSE js.history)
        /\ Len(js.history) > 0 =>
               \/ JsonParse(js'.history[1].content) = SyntaxError
               \/ JsonParse(js.history[1].content) = SyntaxError
               \/ JsonParse(js'.history[1].content) # JsonParse(js.history[1].content)

GrowsOnlyByInsert == Len(js'.history) > Len(js.history) => Inserted

SameDataNeverGrows ==
    Len(js.history) > 0 =>
        \A content \in JsContents \cup {ExampleContent, js.input} :
            (/\ JsonParse(content) # SyntaxError
             /\ JsonParse(content) = JsonParse(js.history[1].content)) =>
                Len(AddToHistory(js.history, content, js.nextId)) <= Len(js.history)

C28_HistoryBound ==
    /\ [](relation = "json" => (Len(js.history) <= 50 /\ SameDataNeverGrows))
    /\ [][relation = "json" => (InsertAtFront /\ GrowsOnlyByInsert)]_vars

\* A history of 50 items took one more: the new item is first, the item that
\* was last is gone, and 50 items are held.
C28_Witness ==
    /\ relation = "json"
    /\ Len(js.history) = 50
    /\ js.history[1].id = 51
    /\ js.history[50].id = 2
    /\ js.history[2].id = 50

\* A history of 49 items has grown to 50, and its first item was then
\* rewritten in another format without growing.
C28_WitnessReformat ==
    /\ relation = "json"
    /\ Len(js.history) = 50
    /\ js.history[1].id = 50
    /\ js.history[1].content = <<"[", "9", "]">>
    /\ js.nextId = 51

(***************************************************************************)
(* C29  Auto-save debounce.  The timer of the auto-save effect fires no    *)
(* sooner than 2 seconds after it was set; when its firing adds to the     *)
(* history, the value added is the current input, unchanged for 2 seconds, *)
(* of trimmed length at least 2 and parsing as JSON.  Every change of the  *)
(* input clears the pending timer, so at most one timer is pending, it     *)
(* holds the current input, and no superseded value is saved by a timer.   *)
(***************************************************************************)
\* The step is the callback of timer t.
FiredTimer(t) ==
    /\ t \in js.timers
    /\ js'.timers = js.timers \ {t}
    /\ js'.input = js.input
    /\ js'.steps = js.steps

AutoSaveOnlyWhenSettled ==
    \A t \in js.timers :
        FiredTimer(t) =>
            /\ t.elapsed >= 2
            /\ js'.history # js.history =>
                   /\ t.value = js.input
                   /\ js.sinceChange >= 2
                   /\ Len(Trim(t.value)) >= 2
                   /\ JsonParse(t.value) # SyntaxError
                   /\ js'.history[1].content = t.value

ChangeCancelsTimer ==
    js'.input # js.input =>
        /\ \A t \in js'.timers : t.value = js'.input /\ t.elapsed = 0
        /\ js'.sinceChange = 0

OneCurrentTimer ==
    /\ Cardinality(js.timers) <= 1
    /\ \A t \in js.timers :
           /\ t.value = js.input
           /\ t.elapsed <= js.sinceChange
           /\ Len(Trim(t.value)) >= 2

C29_AutoSaveDebounce ==
    /\ [](relation = "json" => OneCurrentTimer)
    /\ [][relation = "json" => (AutoSaveOnlyWhenSettled /\ ChangeCancelsTimer)]_vars

\* After two user actions the input stayed for 2 seconds and the timer saved
\* it: it is the only item of a history that was empty.
C29_Witness ==
    /\ relation = "json"
    /\ js.steps = 2
    /\ js.timers = {}
    /\ js.sinceChange = 2
    /\ js.input = <<"[", "2", "]">>
    /\ js.indentation = 2 /\ js.viewMode = "code"
    /\ js.nextId = 2
    /\ js.history = <<[id |-> 1, content |-> <<"[", "2", "]">>]>>

\* A timer is pending one second after the input changed.
C29_WitnessPending ==
    /\ relation = "json"
    /\ js.sinceChange = 1
    /\ js.steps > 0
    /\ \E t \in js.timers : t.elapsed = 1 /\ t.value = <<"[", "1">>


(***************************************************************************)
(* C30  Timestamp range guard.                                             *)
(***************************************************************************)
\* The digits the effect parses from the current input.
NumericInput == StripNonDigits(ts.timestampInput)

\* The year, in the local time zone, of the date the shown result stands for.
ConvertedYear == FullYear(ts.tsResult.milliseconds, ts.tz)

\* The shown date lies in the range the tool's error message announces.
ShownYearInRange == ConvertedYear >= 1970 /\ ConvertedYear <= 2100

\* isValidTimestamp reads the digits as milliseconds exactly when the effect
\* converts them as milliseconds.
SameUnitAsValidity ==
    (Len(NumericInput) >= 13) = IsMsFor(NumericInput, ts.unit)

\* C30: whenever TimestampTool shows a conversion result, the date converted
\* with the unit the effect uses (selected, detected, or "more than 10 digits"
\* when detection is unknown) has a year between 1970 and 2100, and the
\* validity check read the number with that same unit.
C30_RangeGuard ==
    (relation = "timestamp" /\ ts.tsResult # NoResult)
        => (ShownYearInRange /\ SameUnitAsValidity)

====
